---- MODULE Spec2Model ----
(***************************************************************************)
(* nestkick: rollback ledger (ErrorHandler), project assembler             *)
(* (TemplateManager) and template cache (TemplateCache).                   *)
(*                                                                         *)
(* Strings are sequences of tokens: a path is its names joined by the      *)
(* token "/", a file name is its parts joined by the token ".".            *)
(***************************************************************************)
EXTENDS Integers, Sequences, FiniteSets, TLC

VARIABLES
    fs,             \* the file system below the working directory
    rollbackStack,  \* ErrorHandler.rollbackStack of the shared errorHandler
    last,           \* the last ErrorHandler call and the state it started in
    tpl,            \* the template tree below templateBasePath
    cwdTpl,         \* the tree below process.cwd()/templates
    mem,            \* TemplateCache.cache, the in-memory map
    disk,           \* the files of TemplateCache.cacheDir
    lastRender,     \* the last renderTemplate call and its outcome
    pc,             \* where generateProjectStructure is
    genData,           \* its TemplateData
    genProjectPath,    \* its genProjectPath
    steps,          \* the names of the ProgressSteps it built
    currentStep,    \* ProgressIndicator.currentStep
    started,        \* the steps whose action was started, in order
    caught,         \* the step that threw and its error
    rolled,         \* whether handleError ran, and the removals that failed
    raised,         \* the error the caller received
    call,           \* the last direct call of an operation, its inputs and outcome
    now,            \* Date.now(), where cleanupOldCache is run
    mtime           \* the modification times of the cache files, likewise

ledgerVars == <<fs, rollbackStack, last>>
cacheVars == <<tpl, cwdTpl, mem, disk, lastRender>>
genVars == <<pc, genData, genProjectPath, steps, currentStep, started, caught, rolled, raised>>
vars == <<fs, rollbackStack, last, tpl, cwdTpl, mem, disk, lastRender,
          pc, genData, genProjectPath, steps, currentStep, started, caught, rolled, raised,
          call, now, mtime>>

(***************************************************************************)
(* Bounds                                                                  *)
(***************************************************************************)
MaxTracked == 3
MaxStack == 2
MaxFail == 1

(***************************************************************************)
(* Strings and paths                                                       *)
(***************************************************************************)
Join(a, b) == a \o <<"/">> \o b

Reverse(s) == [i \in 1..Len(s) |-> s[Len(s) + 1 - i]]

Range(s) == {s[i] : i \in 1..Len(s)}

\* await v; Op(result): v is computed once and its value handed to Op.
Await(v, Op(_)) == CHOOSE r \in {Op(x) : x \in {v}} : TRUE

Under(p, d) ==
    /\ Len(p) > Len(d) + 1
    /\ SubSeq(p, 1, Len(d)) = d
    /\ p[Len(d) + 1] = "/"

AtOrUnder(p, d) == p = d \/ Under(p, d)

IsChild(p, d) ==
    /\ Under(p, d)
    /\ \A i \in (Len(d) + 2)..Len(p) : p[i] # "/"

\* path.dirname
Parent(p) ==
    LET cuts == {i \in 1..Len(p) : p[i] = "/"} IN
    IF cuts = {} THEN <<>>
    ELSE SubSeq(p, 1, (CHOOSE i \in cuts : \A j \in cuts : j <= i) - 1)

\* path.basename
Basename(p) ==
    LET cuts == {i \in 1..Len(p) : p[i] = "/"} IN
    IF cuts = {} THEN p
    ELSE SubSeq(p, (CHOOSE i \in cuts : \A j \in cuts : j <= i) + 1, Len(p))

(***************************************************************************)
(* File system (fs-extra): a function from the existing paths to entries   *)
(***************************************************************************)
DirEntry == [kind |-> "dir", content |-> <<>>]

FileEntry(c) == [kind |-> "file", content |-> c]

EmptyFs == [p \in {} |-> DirEntry]

pathExists(f, p) == p \in DOMAIN f

readdir(f, d) == {p \in DOMAIN f : IsChild(p, d)}

remove(f, p) == [q \in {x \in DOMAIN f : ~AtOrUnder(x, p)} |-> f[q]]

(***************************************************************************)
(* ErrorHandler                                                            *)
(***************************************************************************)
RollbackInfo(projectPath) ==
    [projectPath |-> projectPath, createdFiles |-> <<>>, createdDirs |-> <<>>]

addRollbackPoint(stack, projectPath) == Append(stack, RollbackInfo(projectPath))

trackCreatedFileOldest(stack, filePath) ==
    IF Len(stack) > 0
    THEN [stack EXCEPT ![1].createdFiles = Append(@, filePath)]
    ELSE stack

trackCreatedFile(stack, filePath) ==
    IF Len(stack) > 0
    THEN [stack EXCEPT ![Len(stack)].createdFiles = Append(@, filePath)]
    ELSE stack

trackCreatedDir(stack, dirPath) ==
    IF Len(stack) > 0
    THEN [stack EXCEPT ![Len(stack)].createdDirs = Append(@, dirPath)]
    ELSE stack

\* One removal loop of performRollback: the paths of list in order, each
\* removed if it exists; the first removal that fails throws out of the loop.
RECURSIVE RemoveEach(_, _, _)
RemoveEach(f, list, failSet) ==
    IF list = <<>>
    THEN [fs |-> f, failed |-> {}]
    ELSE LET p == Head(list) IN
         IF pathExists(f, p)
         THEN IF p \in failSet
              THEN [fs |-> f, failed |-> {p}]
              ELSE Await(remove(f, p),
                         LAMBDA g : RemoveEach(g, Tail(list), failSet))
         ELSE RemoveEach(f, Tail(list), failSet)

RemoveProjectDirAlways(f, projectPath, failSet) ==
    IF pathExists(f, projectPath)
    THEN IF projectPath \in failSet
         THEN [fs |-> f, failed |-> {projectPath}]
         ELSE [fs |-> remove(f, projectPath), failed |-> {}]
    ELSE [fs |-> f, failed |-> {}]

\* "Remove project directory if it's empty"
RemoveProjectDirIfEmpty(f, projectPath, failSet) ==
    IF pathExists(f, projectPath) /\ readdir(f, projectPath) = {}
    THEN IF projectPath \in failSet
         THEN [fs |-> f, failed |-> {projectPath}]
         ELSE [fs |-> remove(f, projectPath), failed |-> {}]
    ELSE [fs |-> f, failed |-> {}]

\* The body of the try block of performRollback for one RollbackInfo.
RollbackEntry(f, info, failSet) ==
    Await(RemoveEach(f, info.createdFiles, failSet), LAMBDA r1 :
        IF r1.failed # {} THEN r1
        ELSE Await(RemoveEach(r1.fs, Reverse(info.createdDirs), failSet), LAMBDA r2 :
                 IF r2.failed # {} THEN r2
                 ELSE RemoveProjectDirIfEmpty(r2.fs, info.projectPath, failSet)))

\* The loop of performRollback over the reversed stack; a failure inside one
\* entry is caught and the loop goes on with the next entry.
RECURSIVE RollbackLoop(_, _, _)
RollbackLoop(f, entries, failSet) ==
    IF entries = <<>>
    THEN [fs |-> f, failed |-> {}]
    ELSE Await(RollbackEntry(f, Head(entries), failSet), LAMBDA r :
             Await(RollbackLoop(r.fs, Tail(entries), failSet), LAMBDA rest :
                 [fs |-> rest.fs, failed |-> r.failed \cup rest.failed]))

performRollbackUncaught(f, stack, failSet) ==
    IF Len(stack) = 0
    THEN [fs |-> f, failed |-> {}, stack |-> stack, thrown |-> FALSE]
    ELSE Await(RollbackLoop(f, Reverse(stack), failSet), LAMBDA r :
             [fs |-> r.fs, failed |-> r.failed, stack |-> <<>>,
              thrown |-> r.failed # {}])

performRollback(f, stack, failSet) ==
    IF Len(stack) = 0
    THEN [fs |-> f, failed |-> {}, stack |-> stack, thrown |-> FALSE]
    ELSE Await(RollbackLoop(f, Reverse(stack), failSet), LAMBDA r :
             [fs |-> r.fs, failed |-> r.failed, stack |-> <<>>, thrown |-> FALSE])

\* handleError: log, performRollback, provideErrorGuidance.
handleError(f, stack, failSet) == performRollback(f, stack, failSet)

cleanup(stack) == <<>>

(***************************************************************************)
(* Running code against the file system: st carries the state the code     *)
(* changes.  The fallible file operations are counted in st.n, and the one *)
(* numbered st.failAt throws; st.err is the error being thrown ("" for     *)
(* none), st.ret the value returned, st.ev what the code did.              *)
(***************************************************************************)
NewSt(f, stack, m, d, failAt) ==
    [fs |-> f, stack |-> stack, mem |-> m, disk |-> d, n |-> 0,
     failAt |-> failAt, err |-> "", fault |-> "", ret |-> <<>>, ev |-> {},
     hitHash |-> <<>>]

Ok(st) == st.err = ""
Fails(st) == st.n + 1 = st.failAt
Tick(st) == [st EXCEPT !.n = @ + 1]
Failed(st, tag, e) == [st EXCEPT !.n = @ + 1, !.err = e, !.fault = tag]

Put(f, k, v) == [x \in DOMAIN f \cup {k} |-> IF x = k THEN v ELSE f[x]]

Drop(f, k) == [x \in DOMAIN f \ {k} |-> f[x]]

(***************************************************************************)
(* TemplateData and ejs                                                    *)
(***************************************************************************)
BoolText(b) == IF b THEN "true" ELSE "false"

\* ejs.render: every output tag of the template is replaced by the value
\* of the field it names.
EjsTag(tok, data) ==
    CASE tok = "<%=projectName%>" -> data.projectName
      [] tok = "<%=orm%>" -> data.orm
      [] tok = "<%=database%>" -> data.database
      [] tok = "<%=packageManager%>" -> data.packageManager
      [] tok = "<%=docker%>" -> BoolText(data.docker)
      [] tok = "<%=testing%>" -> BoolText(data.testing)
      [] OTHER -> tok

ejsRender(template, data) == [i \in 1..Len(template) |-> EjsTag(template[i], data)]

(***************************************************************************)
(* TemplateCache                                                           *)
(***************************************************************************)
\* crypto.createHash('sha256'): taken as collision free.
generateHash(content) == <<"sha256">> \o content

\* JSON.stringify(data, Object.keys(data).sort())
DataString(data) ==
    <<"database", data.database, "docker", BoolText(data.docker),
      "orm", data.orm, "packageManager", data.packageManager,
      "projectName", data.projectName, "testing", BoolText(data.testing)>>

generateDataHash(data) == generateHash(DataString(data))

SafeChar(tok) == IF tok \in {"/", "\\", ":"} THEN "_" ELSE tok

getCacheKey(templatePath, data) ==
    [i \in 1..Len(templatePath) |-> SafeChar(templatePath[i])]
        \o <<"_">> \o generateDataHash(data)

\* A cache file: ok says whether its text parses, entry is what it parses to.
CacheFile(entry) == [ok |-> TRUE, entry |-> entry]

CorruptFile ==
    [ok |-> FALSE,
     entry |-> [content |-> <<>>, hash |-> <<>>, templatePath |-> <<>>, dataHash |-> <<>>]]

RemoveCacheFileNot(st, cacheKey) == Tick(st)

\* fs.remove(cacheFilePath).catch(() => {})
RemoveCacheFile(st, cacheKey) ==
    IF Fails(st)
    THEN [Tick(st) EXCEPT !.fault = "cacheRemove"]
    ELSE [Tick(st) EXCEPT !.disk = Drop(@, cacheKey)]

Miss(st) == [st EXCEPT !.ret = <<>>]

getCachedTemplate(st, templatePath, data) ==
    LET cacheKey == getCacheKey(templatePath, data) IN
    IF cacheKey \in DOMAIN st.mem
    THEN [st EXCEPT !.ret = st.mem[cacheKey].content,
                    !.ev = @ \cup {"memHit"},
                    !.hitHash = st.mem[cacheKey].hash]
    ELSE IF cacheKey \in DOMAIN st.disk
    THEN IF Fails(st)
         THEN Miss(RemoveCacheFile([Tick(st) EXCEPT !.fault = "cacheRead"], cacheKey))
         ELSE IF ~st.disk[cacheKey].ok
         THEN Miss(RemoveCacheFile(Tick(st), cacheKey))
         ELSE LET s1 == Tick(st)
                  cachedData == st.disk[cacheKey].entry
              IN IF templatePath \in DOMAIN cwdTpl
                 THEN IF Fails(s1)
                      THEN Miss(RemoveCacheFile(
                               [Tick(s1) EXCEPT !.fault = "cacheTemplateRead"], cacheKey))
                      ELSE IF cwdTpl[templatePath].kind = "dir"
                      THEN Miss(RemoveCacheFile(Tick(s1), cacheKey))
                      ELSE LET s2 == Tick(s1)
                               currentHash == generateHash(cwdTpl[templatePath].content)
                           IN IF cachedData.hash = currentHash
                              THEN [s2 EXCEPT !.mem = Put(@, cacheKey, cachedData),
                                              !.ret = cachedData.content,
                                              !.ev = @ \cup {"diskHit"},
                                              !.hitHash = cachedData.hash]
                              ELSE Miss(s2)
                 ELSE Miss(s1)
    ELSE Miss(st)

setCachedTemplate(st, templatePath, data, content) ==
    LET cacheKey == getCacheKey(templatePath, data) IN
    IF templatePath \in DOMAIN cwdTpl
    THEN IF Fails(st) \/ cwdTpl[templatePath].kind = "dir"
         THEN Failed(st, "cacheTemplateRead", "FsError")
         ELSE LET cachedTemplate ==
                      [content |-> content,
                       hash |-> generateHash(cwdTpl[templatePath].content),
                       templatePath |-> templatePath,
                       dataHash |-> generateDataHash(data)]
                  s1 == [Tick(st) EXCEPT !.mem = Put(@, cacheKey, cachedTemplate),
                                         !.ev = @ \cup {"stored"}]
              IN IF Fails(s1)
                 THEN Failed(s1, "cacheWrite", "FsError")
                 ELSE [Tick(s1) EXCEPT
                          !.disk = Put(@, cacheKey, CacheFile(cachedTemplate))]
    ELSE st

(***************************************************************************)
(* TemplateManager.renderTemplate                                          *)
(***************************************************************************)
renderTemplate(st, templatePath, data) ==
    IF ~Ok(st) THEN st
    ELSE IF templatePath \notin DOMAIN tpl
    THEN [st EXCEPT !.err = "TemplateNotFound"]
    ELSE Await(getCachedTemplate(st, templatePath, data), LAMBDA g :
         IF g.ret # <<>>
         THEN [g EXCEPT !.ev = @ \cup {"servedFromCache"}]
         ELSE IF Fails(g) \/ tpl[templatePath].kind = "dir"
         THEN Failed(g, "templateRead", "FsError")
         ELSE LET renderedContent == ejsRender(tpl[templatePath].content, data) IN
              Await([Tick(g) EXCEPT !.ev = @ \cup {"readRaw"}], LAMBDA s1 :
              Await(setCachedTemplate(s1, templatePath, data, renderedContent), LAMBDA s2 :
                  IF Ok(s2) THEN [s2 EXCEPT !.ret = renderedContent] ELSE s2)))

(***************************************************************************)
(* fs-extra operations the assembler runs                                  *)
(***************************************************************************)
Ancestors(p) == {SubSeq(p, 1, i - 1) : i \in {j \in 1..Len(p) : p[j] = "/"}} \cup {p}

IsFile(f, p) == p \in DOMAIN f /\ f[p].kind = "file"
IsDir(f, p) == p \in DOMAIN f /\ f[p].kind = "dir"

\* fs.ensureDir: the directory and its missing parents are created.
ensureDir(st, p) ==
    IF ~Ok(st) THEN st
    ELSE IF Fails(st) \/ \E a \in Ancestors(p) : IsFile(st.fs, a)
    THEN Failed(st, "ensureDir", "FsError")
    ELSE [Tick(st) EXCEPT
            !.fs = [q \in DOMAIN st.fs \cup Ancestors(p) |->
                      IF q \in DOMAIN st.fs THEN st.fs[q] ELSE DirEntry]]

\* fs.writeFile: the parent directory must exist.
writeFile(st, p, content) ==
    IF ~Ok(st) THEN st
    ELSE IF Fails(st) \/ ~IsDir(st.fs, Parent(p)) \/ IsDir(st.fs, p)
    THEN Failed(st, "writeFile", "FsError")
    ELSE [Tick(st) EXCEPT !.fs = Put(@, p, FileEntry(content))]

\* fs.copy of one template file: the bytes are copied as they are.
copyFile(st, sourceItemPath, targetItemPath) ==
    IF ~Ok(st) THEN st
    ELSE IF Fails(st) \/ ~IsDir(st.fs, Parent(targetItemPath))
                      \/ IsDir(st.fs, targetItemPath)
    THEN Failed(st, "copy", "FsError")
    ELSE [Tick(st) EXCEPT
            !.fs = Put(@, targetItemPath, FileEntry(tpl[sourceItemPath].content))]

\* fs.readFile of a template file; the bytes are left in st.ret.
readTemplate(st, sourceItemPath) ==
    IF ~Ok(st) THEN st
    ELSE IF Fails(st) \/ ~IsFile(tpl, sourceItemPath)
    THEN Failed(st, "templateRead", "FsError")
    ELSE [Tick(st) EXCEPT !.ret = tpl[sourceItemPath].content]

TrackDir(st, p) ==
    IF ~Ok(st) THEN st ELSE [st EXCEPT !.stack = trackCreatedDir(@, p)]

TrackFile(st, p) ==
    IF ~Ok(st) THEN st ELSE [st EXCEPT !.stack = trackCreatedFile(@, p)]

(***************************************************************************)
(* JSON text: the tokens "{", "}", ":", "," around keys and scalar values; *)
(* a document is the sequence of its members, a member is a scalar v or a  *)
(* nested object m of scalar members.                                      *)
(***************************************************************************)
IsPunct(t) == t \in {"{", "}", ":", ","}

ParseFail == [ok |-> FALSE, members |-> <<>>, next |-> 0]

Member(k, isMap, v, m) == [k |-> k, isMap |-> isMap, v |-> v, m |-> m]

RECURSIVE ParseMembers(_, _, _)
ParseObject(s, i, depth) ==
    IF i + 1 > Len(s) \/ s[i] # "{" THEN ParseFail
    ELSE IF s[i + 1] = "}" THEN [ok |-> TRUE, members |-> <<>>, next |-> i + 2]
    ELSE ParseMembers(s, i + 1, depth)

ParseMembers(s, i, depth) ==
    IF i + 2 > Len(s) \/ IsPunct(s[i]) \/ s[i + 1] # ":" THEN ParseFail
    ELSE LET isMap == s[i + 2] = "{" IN
         Await(IF isMap
               THEN (IF depth >= 2 THEN ParseFail ELSE ParseObject(s, i + 2, depth + 1))
               ELSE IF IsPunct(s[i + 2]) THEN ParseFail
               ELSE [ok |-> TRUE, members |-> <<>>, next |-> i + 3],
               LAMBDA val :
         LET member == Member(s[i], isMap, IF isMap THEN "" ELSE s[i + 2], val.members)
         IN IF ~val.ok \/ val.next > Len(s) THEN ParseFail
            ELSE IF s[val.next] = "}"
            THEN [ok |-> TRUE, members |-> <<member>>, next |-> val.next + 1]
            ELSE IF s[val.next] = ","
            THEN Await(ParseMembers(s, val.next + 1, depth), LAMBDA rest :
                     IF rest.ok
                     THEN [ok |-> TRUE, members |-> <<member>> \o rest.members,
                           next |-> rest.next]
                     ELSE ParseFail)
            ELSE ParseFail)

\* JSON.parse
JsonParse(s) ==
    Await(ParseObject(s, 1, 1), LAMBDA r :
        IF r.ok /\ r.next = Len(s) + 1
        THEN [ok |-> TRUE, doc |-> r.members]
        ELSE [ok |-> FALSE, doc |-> <<>>])

RECURSIVE StringifyMembers(_)
StringifyMembers(ms) ==
    IF ms = <<>> THEN <<>>
    ELSE LET h == Head(ms)
             text == <<h.k, ":">> \o
                     (IF h.isMap
                      THEN <<"{">> \o StringifyMembers(h.m) \o <<"}">>
                      ELSE <<h.v>>)
         IN IF Len(ms) = 1 THEN text
            ELSE text \o <<",">> \o StringifyMembers(Tail(ms))

\* JSON.stringify (white space left out)
JsonStringify(doc) == <<"{">> \o StringifyMembers(doc) \o <<"}">>

HasKey(doc, k) == \E i \in 1..Len(doc) : doc[i].k = k

GetKey(doc, k) == doc[CHOOSE i \in 1..Len(doc) : doc[i].k = k]

\* obj[k] = member: the key keeps its place, a new key goes to the end.
SetKey(doc, member) ==
    IF HasKey(doc, member.k)
    THEN [i \in 1..Len(doc) |-> IF doc[i].k = member.k THEN member ELSE doc[i]]
    ELSE Append(doc, member)

\* if (obj[k]): an object is truthy, a scalar is unless it is empty, 0,
\* false or null.
Truthy(doc, k) ==
    /\ HasKey(doc, k)
    /\ GetKey(doc, k).isMap \/ GetKey(doc, k).v \notin {"", "0", "false", "null"}

\* ...obj[k]: the members of a nested object, nothing for a missing key.
SpreadOf(doc, k) ==
    IF HasKey(doc, k) /\ GetKey(doc, k).isMap THEN GetKey(doc, k).m ELSE <<>>

RECURSIVE SpreadMergeKeepFirst(_, _)
\* A spread in which a key of a is not overwritten by b.
SpreadMergeKeepFirst(a, b) ==
    IF b = <<>> THEN a
    ELSE Await(IF HasKey(a, Head(b).k) THEN a ELSE Append(a, Head(b)), LAMBDA c :
             SpreadMergeKeepFirst(c, Tail(b)))

RECURSIVE SpreadMerge(_, _)
SpreadMerge(a, b) ==
    IF b = <<>> THEN a
    ELSE Await(SetKey(a, Head(b)), LAMBDA c : SpreadMerge(c, Tail(b)))

(***************************************************************************)
(* TemplateManager: copying a template tree                                *)
(***************************************************************************)
Ejs(name) == name \o <<".", "ejs">>

\* item.endsWith('.ejs')
EndsWithEjs(name) ==
    Len(name) >= 2 /\ name[Len(name) - 1] = "." /\ name[Len(name)] = "ejs"

\* targetItemPath.replace(/\.ejs$/, '')
StripEjs(p) == IF EndsWithEjs(p) THEN SubSeq(p, 1, Len(p) - 2) ELSE p

IncludesBaseNever(p) == FALSE

\* sourcePath.includes('base'), on the tokens of the path
IncludesBase(p) == \E i \in 1..Len(p) : p[i] \in {"base", "database"}

ComposeName(database) == <<"docker-compose", ".", database, ".", "yml">>

shouldSkipFileNothing(filename, sourcePath, data) == FALSE

shouldSkipFile(filename, sourcePath, data) ==
    IF /\ IncludesBase(sourcePath)
       /\ Len(filename) >= 2 /\ filename[1] = "docker-compose" /\ filename[2] = "."
    THEN LET databaseFiles == {Ejs(ComposeName("postgres")), Ejs(ComposeName("mysql")),
                               Ejs(ComposeName("mongodb")), Ejs(ComposeName("sqlite"))}
             selectedDbFile == Ejs(ComposeName(data.database))
         IN filename \in databaseFiles /\ filename # selectedDbFile
    ELSE FALSE

\* The names of every template directory and file, in the order fs.readdir
\* lists them.
NGithub == <<".", "github">>
NIssue == <<"ISSUE", "_", "TEMPLATE">>
NBug == <<"bug", "_", "report", ".", "md">>
NFeature == <<"feature", "_", "request", ".", "md">>
NPr == <<"pull", "_", "request", "_", "template", ".", "md">>
NWorkflows == <<"workflows">>
NCi == <<"ci", ".", "yml">>
NDepReview == <<"dependency-review", ".", "yml">>
NReadme == <<"README", ".", "md">>
NTrouble == <<"TROUBLESHOOTING", ".", "md">>
NDocker == <<"docker">>
NInitSql == <<"init", ".", "sql">>
NPkg == <<"package", ".", "json">>
NAdditions == <<"package-additions", ".", "json">>
NSrc == <<"src">>
NMain == <<"main", ".", "ts">>
NCommon == <<"common">>
NFilter == <<"filter", ".", "ts">>
NTsconfig == <<"tsconfig", ".", "json">>
NSchema == <<"schema", ".", "prisma">>
NPrismaModule == <<"prisma", ".", "module", ".", "ts">>
NEnvExample == <<".", "env", ".", "example">>

RECURSIVE JoinAll(_)
JoinAll(names) ==
    IF Len(names) = 1 THEN names[1] ELSE Join(names[1], JoinAll(Tail(names)))

TBase == <<"base">>
TPrisma == <<"prisma">>

TemplateListing ==
    << TBase,
       Join(TBase, NGithub),
       JoinAll(<<TBase, NGithub, NIssue>>),
       JoinAll(<<TBase, NGithub, NIssue, Ejs(NBug)>>),
       JoinAll(<<TBase, NGithub, NIssue, Ejs(NFeature)>>),
       JoinAll(<<TBase, NGithub, Ejs(NPr)>>),
       JoinAll(<<TBase, NGithub, NWorkflows>>),
       JoinAll(<<TBase, NGithub, NWorkflows, Ejs(NCi)>>),
       JoinAll(<<TBase, NGithub, NWorkflows, Ejs(NDepReview)>>),
       Join(TBase, Ejs(NReadme)),
       Join(TBase, Ejs(NTrouble)),
       Join(TBase, NDocker),
       JoinAll(<<TBase, NDocker, <<"postgres">> >>),
       JoinAll(<<TBase, NDocker, <<"postgres">>, NInitSql>>),
       Join(TBase, Ejs(ComposeName("multi"))),
       Join(TBase, Ejs(ComposeName("mysql"))),
       Join(TBase, Ejs(ComposeName("postgres"))),
       Join(TBase, Ejs(ComposeName("prod"))),
       Join(TBase, Ejs(NPkg)),
       Join(TBase, NSrc),
       JoinAll(<<TBase, NSrc, NCommon>>),
       JoinAll(<<TBase, NSrc, NCommon, Ejs(NFilter)>>),
       JoinAll(<<TBase, NSrc, Ejs(NMain)>>),
       Join(TBase, NTsconfig),
       TPrisma,
       Join(TPrisma, Ejs(NAdditions)),
       Join(TPrisma, <<"prisma">>),
       JoinAll(<<TPrisma, <<"prisma">>, Ejs(NSchema)>>),
       Join(TPrisma, NSrc),
       JoinAll(<<TPrisma, NSrc, Ejs(NPrismaModule)>>) >>

\* fs.readdir(sourcePath) of the template tree
TemplateItems(sourcePath) ==
    SelectSeq(TemplateListing, LAMBDA p : p \in DOMAIN tpl /\ IsChild(p, sourcePath))

RECURSIVE copyDirectoryRecursive(_, _, _, _)
RECURSIVE CopyItems(_, _, _, _, _)
\* One turn of the loop of copyDirectoryRecursive for the first of items,
\* then the rest of the loop.
CopyItems(st, items, sourcePath, targetPath, data) ==
    IF ~Ok(st) \/ items = <<>> THEN st
    ELSE LET sourceItemPath == Head(items)
             item == Basename(sourceItemPath)
             targetItemPath == Join(targetPath, item)
             done ==
                IF shouldSkipFile(item, sourcePath, data) THEN st
                ELSE IF IsDir(tpl, sourceItemPath)
                THEN IF item = NDocker /\ IncludesBase(sourcePath) THEN st
                     ELSE Await(ensureDir(st, targetItemPath), LAMBDA s1 :
                          Await(TrackDir(s1, targetItemPath), LAMBDA s2 :
                              copyDirectoryRecursive(s2, sourceItemPath,
                                                     targetItemPath, data)))
                ELSE IF EndsWithEjs(item)
                THEN LET targetFilePath == StripEjs(targetItemPath) IN
                     Await(readTemplate(st, sourceItemPath), LAMBDA r0 :
                     Await(IF Ok(r0) THEN [r0 EXCEPT !.ev = @ \cup {"renderedDirect"}]
                           ELSE r0, LAMBDA r :
                     Await(ensureDir(r, Parent(targetFilePath)), LAMBDA s1 :
                     Await(writeFile(s1, targetFilePath, ejsRender(r.ret, data)),
                           LAMBDA s2 : TrackFile(s2, targetFilePath)))))
                ELSE Await(copyFile(st, sourceItemPath, targetItemPath), LAMBDA s1 :
                         TrackFile(s1, targetItemPath))
         IN Await(done, LAMBDA s :
                CopyItems(s, Tail(items), sourcePath, targetPath, data))

copyDirectoryRecursive(st, sourcePath, targetPath, data) ==
    IF ~Ok(st) THEN st
    ELSE CopyItems(st, TemplateItems(sourcePath), sourcePath, targetPath, data)

copyDirectoryUnchecked(st, sourceDir, targetDir, data) ==
    copyDirectoryRecursive(st, sourceDir, targetDir, data)

copyDirectory(st, sourceDir, targetDir, data) ==
    IF ~Ok(st) THEN st
    ELSE IF sourceDir \notin DOMAIN tpl
    THEN [st EXCEPT !.err = "TemplateDirectoryNotFound"]
    ELSE copyDirectoryRecursive(st, sourceDir, targetDir, data)

copyTemplateFile(st, templatePath, targetPath, data) ==
    Await(renderTemplate(st, templatePath, data), LAMBDA r :
    Await(ensureDir(r, Parent(targetPath)), LAMBDA s1 :
        writeFile(s1, targetPath, r.ret)))

RECURSIVE CopyTemplateFiles(_, _, _)
\* Consecutive calls of copyTemplateFile, each a pair <<templatePath, targetPath>>.
CopyTemplateFiles(st, calls, data) ==
    IF calls = <<>> THEN st
    ELSE Await(copyTemplateFile(st, Head(calls)[1], Head(calls)[2], data),
               LAMBDA s : CopyTemplateFiles(s, Tail(calls), data))

RECURSIVE EnsureDirs(_, _)
\* Consecutive calls of fs.ensureDir.
EnsureDirs(st, dirs) ==
    IF dirs = <<>> THEN st
    ELSE Await(ensureDir(st, Head(dirs)), LAMBDA s : EnsureDirs(s, Tail(dirs)))

(***************************************************************************)
(* TemplateManager.mergePackageJson                                        *)
(***************************************************************************)
MergeKey(basePackageJson, additionsJson, k) ==
    IF Truthy(additionsJson, k)
    THEN SetKey(basePackageJson,
                Member(k, TRUE, "",
                       SpreadMerge(SpreadOf(basePackageJson, k),
                                   SpreadOf(additionsJson, k))))
    ELSE basePackageJson

MergeDocs(basePackageJson, additionsJson) ==
    Await(MergeKey(basePackageJson, additionsJson, "dependencies"), LAMBDA d1 :
    Await(MergeKey(d1, additionsJson, "devDependencies"), LAMBDA d2 :
        MergeKey(d2, additionsJson, "scripts")))

\* A merge that gives up on merging when a manifest does not parse and
\* writes the rendered base manifest as it is.
mergePackageJsonLenient(st, basePackagePath, additionsPath, targetPath, data) ==
    Await(renderTemplate(st, basePackagePath, data), LAMBDA r1 :
    Await(renderTemplate(r1, additionsPath, data), LAMBDA r2 :
        IF ~Ok(r2) THEN r2
        ELSE Await(JsonParse(r1.ret), LAMBDA basePackageJson :
             Await(JsonParse(r2.ret), LAMBDA additionsJson :
                 IF ~basePackageJson.ok \/ ~additionsJson.ok
                 THEN writeFile(r2, targetPath, r1.ret)
                 ELSE writeFile(r2, targetPath,
                                JsonStringify(MergeDocs(basePackageJson.doc,
                                                        additionsJson.doc)))))))

mergePackageJson(st, basePackagePath, additionsPath, targetPath, data) ==
    Await(renderTemplate(st, basePackagePath, data), LAMBDA r1 :
    Await(renderTemplate(r1, additionsPath, data), LAMBDA r2 :
        IF ~Ok(r2) THEN r2
        ELSE Await(JsonParse(r1.ret), LAMBDA basePackageJson :
             Await(JsonParse(r2.ret), LAMBDA additionsJson :
                 IF ~basePackageJson.ok \/ ~additionsJson.ok
                 THEN [r2 EXCEPT !.err = "SyntaxError"]
                 ELSE writeFile(r2, targetPath,
                                JsonStringify(MergeDocs(basePackageJson.doc,
                                                        additionsJson.doc)))))))

(***************************************************************************)
(* TemplateManager: Docker, CI/CD and README files                         *)
(***************************************************************************)
EnvExample(data) ==
    <<"DATABASE_URL", data.database, "DB_DATABASE", data.projectName>>

generateDockerEnvExample(st, projectPath, data) ==
    writeFile(st, Join(projectPath, NEnvExample), EnvExample(data))

copyDatabaseSpecificDockerFiles(st, projectPath, data) ==
    LET dockerDir == Join(projectPath, NDocker)
        databaseDockerDir == Join(dockerDir, <<data.database>>)
        sourceDbDir == JoinAll(<<TBase, NDocker, <<data.database>> >>)
    IN Await(ensureDir(st, databaseDockerDir), LAMBDA s1 :
           IF sourceDbDir \in DOMAIN tpl
           THEN copyDirectoryRecursive(s1, sourceDbDir, databaseDockerDir, data)
           ELSE s1)

generateDockerComposeFiles(st, projectPath, data) ==
    LET dockerComposeTemplate == Join(TBase, Ejs(ComposeName(data.database)))
        target == Join(projectPath, <<"docker-compose", ".", "yml">>)
        calls ==
            << <<IF dockerComposeTemplate \in DOMAIN tpl
                 THEN dockerComposeTemplate
                 ELSE Join(TBase, Ejs(<<"docker-compose", ".", "yml">>)),
                 target>>,
               <<Join(TBase, Ejs(ComposeName("prod"))),
                 Join(projectPath, ComposeName("prod"))>>,
               <<Join(TBase, Ejs(ComposeName("multi"))),
                 Join(projectPath, ComposeName("multi"))>> >>
    IN Await(CopyTemplateFiles(st, calls, data), LAMBDA s1 :
       Await(copyDatabaseSpecificDockerFiles(s1, projectPath, data), LAMBDA s2 :
           generateDockerEnvExample(s2, projectPath, data)))

generateCICDTemplates(st, projectPath, data) ==
    LET githubPath == Join(projectPath, NGithub)
        dirs == <<githubPath, Join(githubPath, NWorkflows), Join(githubPath, NIssue)>>
        calls ==
            << <<JoinAll(<<TBase, NGithub, NWorkflows, Ejs(NCi)>>),
                 JoinAll(<<githubPath, NWorkflows, NCi>>)>>,
               <<JoinAll(<<TBase, NGithub, NWorkflows, Ejs(NDepReview)>>),
                 JoinAll(<<githubPath, NWorkflows, NDepReview>>)>>,
               <<JoinAll(<<TBase, NGithub, NIssue, Ejs(NBug)>>),
                 JoinAll(<<githubPath, NIssue, NBug>>)>>,
               <<JoinAll(<<TBase, NGithub, NIssue, Ejs(NFeature)>>),
                 JoinAll(<<githubPath, NIssue, NFeature>>)>>,
               <<JoinAll(<<TBase, NGithub, Ejs(NPr)>>),
                 Join(githubPath, NPr)>> >>
    IN Await(EnsureDirs(st, dirs), LAMBDA s1 : CopyTemplateFiles(s1, calls, data))

generateREADME(st, projectPath, data) ==
    CopyTemplateFiles(st,
        << <<Join(TBase, Ejs(NReadme)), Join(projectPath, NReadme)>>,
           <<Join(TBase, Ejs(NTrouble)), Join(projectPath, NTrouble)>> >>,
        data)

(***************************************************************************)
(* Ledger API driven directly (as the unit tests do), with the file system *)
(* changed by the environment between the calls.                           *)
(***************************************************************************)
Root == <<"proj">>
SrcDir == Join(Root, <<"src">>)
MainTs == Join(SrcDir, <<"main", ".", "ts">>)
NotesInSrc == Join(SrcDir, <<"notes", ".", "txt">>)
PkgJson == Join(Root, <<"package", ".", "json">>)
NotesInRoot == Join(Root, <<"notes", ".", "txt">>)

\* TrackedFiles and TrackedDirs are the paths the generator creates and
\* tracks; the notes are content somebody else puts into the project.
TrackedFiles == {MainTs, PkgJson}
TrackedDirs == {SrcDir}
LedgerDirs == {Root} \cup TrackedDirs
LedgerFiles == TrackedFiles \cup {NotesInSrc, NotesInRoot}
LedgerPaths == LedgerDirs \cup LedgerFiles

RECURSIVE SubsetsUpTo(_, _)
SubsetsUpTo(S, n) ==
    IF n = 0 THEN {{}}
    ELSE Await(SubsetsUpTo(S, n - 1), LAMBDA smaller :
             smaller \cup {F \cup {x} : F \in smaller, x \in S})

FailSets(S) == SubsetsUpTo(S, MaxFail)

NoLast == [op |-> "none", preFs |-> EmptyFs, preStack |-> <<>>,
           failSet |-> {}, failed |-> {}]

RECURSIVE TrackedCount(_)
TrackedCount(stack) ==
    IF stack = <<>> THEN 0
    ELSE Len(Head(stack).createdFiles) + Len(Head(stack).createdDirs)
         + TrackedCount(Tail(stack))

Data(orm, database, docker) ==
    [projectName |-> "sample-api", orm |-> orm, database |-> database,
     packageManager |-> "npm", docker |-> docker, testing |-> TRUE]

NoRender == [op |-> "none", templatePath |-> <<>>,
             data |-> Data("prisma", "postgres", TRUE),
             err |-> "", fault |-> "", text |-> <<>>, ev |-> {}, hitHash |-> <<>>,
             second |-> FALSE, prevText |-> <<>>]

NoCaught == [step |-> "", index |-> 0, err |-> "", preFs |-> EmptyFs]

NoRolled == [done |-> FALSE, failed |-> {}]

NoCall == [op |-> "none"]

NoTimes == [k \in {} |-> 0]

\* Time is not looked at.
TimeIdle ==
    /\ now = 0
    /\ mtime = NoTimes

GenIdle ==
    /\ pc = "idle"
    /\ genData = Data("prisma", "postgres", TRUE)
    /\ genProjectPath = <<"proj">>
    /\ steps = <<>>
    /\ currentStep = 0
    /\ started = <<>>
    /\ caught = NoCaught
    /\ rolled = NoRolled
    /\ raised = ""

CacheIdle ==
    /\ tpl = EmptyFs
    /\ cwdTpl = EmptyFs
    /\ mem = EmptyFs
    /\ disk = EmptyFs
    /\ lastRender = NoRender

InitLedger ==
    /\ fs = EmptyFs
    /\ rollbackStack = <<>>
    /\ last = NoLast
    /\ CacheIdle
    /\ GenIdle
    /\ call = NoCall
    /\ TimeIdle

\* The environment (generator code or a user) creates a path.
FsCreate(p) ==
    /\ ~pathExists(fs, p)
    /\ Parent(p) = <<>> \/ (pathExists(fs, Parent(p)) /\ fs[Parent(p)].kind = "dir")
    /\ fs' = [q \in DOMAIN fs \cup {p} |->
                IF q = p
                THEN (IF p \in LedgerDirs THEN DirEntry ELSE FileEntry(<<"x">>))
                ELSE fs[q]]
    /\ last' = NoLast
    /\ UNCHANGED <<now, mtime, call, rollbackStack, cacheVars, genVars>>

\* The environment removes a path.
FsRemove(p) ==
    /\ pathExists(fs, p)
    /\ fs' = remove(fs, p)
    /\ last' = NoLast
    /\ UNCHANGED <<now, mtime, call, rollbackStack, cacheVars, genVars>>

AddRollbackPoint(projectPath) ==
    /\ Len(rollbackStack) < MaxStack
    /\ rollbackStack' = addRollbackPoint(rollbackStack, projectPath)
    /\ last' = NoLast
    /\ UNCHANGED <<now, mtime, call, fs, cacheVars, genVars>>

TrackCreatedFile(p) ==
    /\ TrackedCount(rollbackStack) < MaxTracked
    /\ rollbackStack' = trackCreatedFile(rollbackStack, p)
    /\ last' = NoLast
    /\ UNCHANGED <<now, mtime, call, fs, cacheVars, genVars>>

TrackCreatedDir(p) ==
    /\ TrackedCount(rollbackStack) < MaxTracked
    /\ rollbackStack' = trackCreatedDir(rollbackStack, p)
    /\ last' = NoLast
    /\ UNCHANGED <<now, mtime, call, fs, cacheVars, genVars>>

HandleError(failSet) ==
    \E r \in {handleError(fs, rollbackStack, failSet)} :
    /\ fs' = r.fs
    /\ rollbackStack' = r.stack
    /\ last' = [op |-> "handleError", preFs |-> fs, preStack |-> rollbackStack,
                failSet |-> failSet, failed |-> r.failed]
    /\ UNCHANGED <<now, mtime, call, cacheVars, genVars>>

Cleanup ==
    /\ rollbackStack' = cleanup(rollbackStack)
    /\ last' = NoLast
    /\ UNCHANGED <<now, mtime, call, fs, cacheVars, genVars>>

NextLedger ==
    \/ \E p \in LedgerPaths : FsCreate(p)
    \/ \E p \in LedgerPaths : FsRemove(p)
    \/ AddRollbackPoint(Root)
    \/ \E p \in TrackedFiles : TrackCreatedFile(p)
    \/ \E p \in TrackedDirs : TrackCreatedDir(p)
    \/ \E failSet \in FailSets(LedgerPaths) : HandleError(failSet)
    \/ Cleanup

SpecLedger == InitLedger /\ [][NextLedger]_vars

(***************************************************************************)
(* Properties of the rollback                                              *)
(***************************************************************************)
RECURSIVE TrackedPaths(_)
TrackedPaths(stack) ==
    IF stack = <<>> THEN {}
    ELSE Range(Head(stack).createdFiles) \cup Range(Head(stack).createdDirs)
         \cup TrackedPaths(Tail(stack))

RolledBack == last.op = "handleError" /\ Len(last.preStack) > 0

\* The paths of f that are neither tracked nor inside a tracked path.
Survivors(f, tracked) ==
    {p \in DOMAIN f : \A t \in tracked : ~AtOrUnder(p, t)}

\* C1: after a rollback in which no removal failed, no tracked path exists,
\* and the project root exists exactly when it existed and an entry of it is
\* left once the tracked paths are gone.
C1_RollbackInverse ==
    (RolledBack /\ last.failed = {}) =>
        LET tracked == TrackedPaths(last.preStack)
            left == Survivors(last.preFs, tracked)
        IN /\ \A p \in tracked : ~pathExists(fs, p)
           /\ \A i \in 1..Len(last.preStack) :
                 LET root == last.preStack[i].projectPath IN
                 pathExists(fs, root) <=>
                    (root \in left /\ \E p \in left : IsChild(p, root))

C1_Witness ==
    /\ RolledBack
    /\ last.failed = {}
    /\ \E p \in TrackedPaths(last.preStack) : pathExists(last.preFs, p)
    /\ pathExists(last.preFs, Root)
    /\ ~pathExists(fs, Root)

\* C2: when a removal fails during the rollback, every other tracked path
\* is removed all the same and the project root is still removed if empty.
C2_BestEffortPerItem ==
    (RolledBack /\ last.failed # {}) =>
        /\ \A p \in TrackedPaths(last.preStack) \ last.failed :
              ~pathExists(fs, p)
        /\ \A i \in 1..Len(last.preStack) :
              LET root == last.preStack[i].projectPath IN
              (pathExists(fs, root) /\ root \notin last.failed)
                 => readdir(fs, root) # {}

\* C3: a path under the project root that was never tracked still exists,
\* unchanged, after the rollback.
C3_UntrackedContentKept ==
    RolledBack =>
        \A i \in 1..Len(last.preStack) :
           \A p \in DOMAIN last.preFs :
              (Under(p, last.preStack[i].projectPath)
                 /\ p \notin TrackedPaths(last.preStack))
              => (pathExists(fs, p) /\ fs[p] = last.preFs[p])


(***************************************************************************)
(* renderTemplate called by one process after another, with the templates  *)
(* and the cache files changed by the environment between the calls.       *)
(***************************************************************************)
ReadmeT == <<"base", "/", "README", ".", "md", ".", "ejs">>
GitkeepT == <<"base", "/", ".", "gitkeep", ".", "ejs">>
MissingT == <<"base", "/", "missing", ".", "ejs">>

ReadmeV1 == <<"#", "<%=projectName%>">>
ReadmeV2 == <<"#", "<%=projectName%>", "uses", "<%=orm%>">>

DataA == Data("prisma", "postgres", TRUE)

\* The calls made: a template with text, a template that renders to the
\* empty text, and a template that does not exist.
RenderInputs == {<<ReadmeT, DataA>>, <<GitkeepT, DataA>>, <<MissingT, DataA>>}

CacheKeys == {getCacheKey(x[1], x[2]) : x \in RenderInputs}

CacheTree == (ReadmeT :> FileEntry(ReadmeV1)) @@ (GitkeepT :> FileEntry(<<>>))

LedgerIdle ==
    /\ fs = EmptyFs
    /\ rollbackStack = <<>>
    /\ last = NoLast

\* The working directory holds a copy of the templates (a checkout of the
\* repository) or no templates directory at all (an installed package).
InitCache ==
    /\ LedgerIdle
    /\ tpl = CacheTree
    /\ cwdTpl \in {CacheTree, EmptyFs}
    /\ mem = EmptyFs
    /\ disk = EmptyFs
    /\ lastRender = NoRender
    /\ GenIdle
    /\ call = NoCall
    /\ TimeIdle

\* The number of fallible file operations of a call.
RenderOps(t, d) == renderTemplate(NewSt(fs, rollbackStack, mem, disk, 0), t, d).n

RenderTemplateAt(t, d, failAt) ==
    \E st \in {renderTemplate(NewSt(fs, rollbackStack, mem, disk, failAt), t, d)} :
    /\ mem' = st.mem
    /\ disk' = st.disk
    /\ lastRender' =
          [op |-> "render", templatePath |-> t, data |-> d,
           err |-> st.err, fault |-> st.fault,
           text |-> IF Ok(st) THEN st.ret ELSE <<>>,
           ev |-> st.ev, hitHash |-> st.hitHash,
           second |-> /\ lastRender.op = "render"
                      /\ lastRender.templatePath = t
                      /\ lastRender.data = d
                      /\ lastRender.err = ""
                      /\ lastRender.fault = "",
           prevText |-> lastRender.text]
    /\ UNCHANGED <<now, mtime, call, ledgerVars, genVars, tpl, cwdTpl>>

RenderTemplate(t, d) ==
    \E failAt \in 0..RenderOps(t, d) : RenderTemplateAt(t, d, failAt)

\* A template is edited; both says whether the copy below the working
\* directory changes with it.
MutateTemplate(t, bytes, both) ==
    /\ t \in DOMAIN tpl
    /\ tpl[t].content # bytes
    /\ tpl' = Put(tpl, t, FileEntry(bytes))
    /\ cwdTpl' = IF both /\ t \in DOMAIN cwdTpl
                  THEN Put(cwdTpl, t, FileEntry(bytes))
                  ELSE cwdTpl
    /\ lastRender' = NoRender
    /\ UNCHANGED <<now, mtime, call, ledgerVars, genVars, mem, disk>>

\* The process ends and another one starts: the in-memory map is lost.
RestartProcess ==
    /\ mem # EmptyFs
    /\ mem' = EmptyFs
    /\ lastRender' = NoRender
    /\ UNCHANGED <<now, mtime, call, ledgerVars, genVars, tpl, cwdTpl, disk>>

\* A cache file is damaged on disk.
CorruptCacheFile(k) ==
    /\ k \in DOMAIN disk
    /\ disk[k].ok
    /\ disk' = Put(disk, k, CorruptFile)
    /\ lastRender' = NoRender
    /\ UNCHANGED <<now, mtime, call, ledgerVars, genVars, tpl, cwdTpl, mem>>

NextCache ==
    \/ \E x \in RenderInputs : RenderTemplate(x[1], x[2])
    \/ \E both \in BOOLEAN, bytes \in {ReadmeV1, ReadmeV2} :
          MutateTemplate(ReadmeT, bytes, both)
    \/ RestartProcess
    \/ \E k \in CacheKeys : CorruptCacheFile(k)

SpecCache == InitCache /\ [][NextCache]_vars

Rendered == lastRender.op = "render"

\* C8: a render that is served from the cache, from memory or from disk,
\* uses an entry whose stored hash is the hash of the template's bytes now.
C8_NoStaleContent ==
    (Rendered /\ lastRender.ev \cap {"memHit", "diskHit"} # {}) =>
        lastRender.hitHash = generateHash(tpl[lastRender.templatePath].content)

\* C9: the second of two successive renders of an unchanged template with
\* the same configuration returns the same text and is served from the
\* cache, without reading the raw template and without storing an entry.
C9_SecondRenderFromCache ==
    (Rendered /\ lastRender.second /\ lastRender.fault = "") =>
        /\ lastRender.err = ""
        /\ lastRender.text = lastRender.prevText
        /\ "servedFromCache" \in lastRender.ev
        /\ "readRaw" \notin lastRender.ev
        /\ "stored" \notin lastRender.ev

\* C10: a render during which reading or writing a cache entry fails still
\* returns the rendered text of the template.
C10_CacheFailureHarmless ==
    (Rendered /\ lastRender.fault \in {"cacheRead", "cacheWrite", "cacheRemove"}) =>
        /\ lastRender.err = ""
        /\ lastRender.text =
              ejsRender(tpl[lastRender.templatePath].content, lastRender.data)

(***************************************************************************)
(* TemplateManager.generateProjectStructure                                *)
(***************************************************************************)
StepNamesReadmeFirst(d) ==
    <<"readme", "base", "orm", "merge">>
        \o (IF d.docker THEN <<"docker">> ELSE <<>>)
        \o <<"cicd">>

StepNames(d) ==
    <<"base", "orm", "merge">>
        \o (IF d.docker THEN <<"docker">> ELSE <<>>)
        \o <<"cicd", "readme">>

StepAction(st, name, path, d) ==
    CASE name = "base" -> copyDirectory(st, TBase, path, d)
      [] name = "orm" ->
            IF <<d.orm>> \in DOMAIN tpl
            THEN copyDirectory(st, <<d.orm>>, path, d)
            ELSE st
      [] name = "merge" ->
            LET additionsPath == Join(<<d.orm>>, Ejs(NAdditions)) IN
            IF additionsPath \in DOMAIN tpl
            THEN mergePackageJson(st, Join(TBase, Ejs(NPkg)), additionsPath,
                                  Join(path, NPkg), d)
            ELSE st
      [] name = "docker" -> generateDockerComposeFiles(st, path, d)
      [] name = "cicd" -> generateCICDTemplates(st, path, d)
      [] name = "readme" -> generateREADME(st, path, d)

runStepsNextNoAbort(ok, idx, totalSteps) ==
    IF idx < totalSteps THEN "running"
    ELSE IF ok THEN "returned" ELSE "caught"

\* ProgressIndicator.runSteps / runStep: a step that throws ends the loop,
\* the last step that succeeds ends generateProjectStructure.
runStepsNext(ok, idx, totalSteps) ==
    IF ~ok THEN "caught"
    ELSE IF idx < totalSteps THEN "running"
    ELSE "returned"

\* The template trees: the whole tree, the tree without the troubleshooting
\* guide, the tree whose manifest additions are not JSON and the tree whose
\* base manifest is not JSON.
PkgText ==
    <<"{", "name", ":", "<%=projectName%>", ",",
      "dependencies", ":", "{", "nestjs", ":", "10", "}", ",",
      "scripts", ":", "{", "build", ":", "tsc", "}", "}">>

AdditionsText ==
    <<"{", "dependencies", ":", "{", "prisma", ":", "5", "}", ",",
      "scripts", ":", "{", "db:generate", ":", "prisma", "}", "}">>

BadAdditionsText == <<"{", "dependencies", ":">>

BadPkgText == <<"{", "name", ":", "<%=projectName%>">>

TemplateText(p) ==
    IF Basename(p) = Ejs(NPkg) THEN PkgText
    ELSE IF Basename(p) = Ejs(NAdditions) THEN AdditionsText
    ELSE <<Basename(p)[1], "<%=projectName%>">>

\* A listed path is a directory when another listed path lies below it.
\* The paths that only a tree with a directory below base/src has.
NestedOnly ==
    { JoinAll(<<TBase, NSrc, NCommon>>),
      JoinAll(<<TBase, NSrc, NCommon, Ejs(NFilter)>>) }

FullTree ==
    [p \in Range(TemplateListing) \ NestedOnly |->
        IF \E q \in Range(TemplateListing) : Under(q, p)
        THEN DirEntry
        ELSE FileEntry(TemplateText(p))]

NestedTree ==
    [p \in Range(TemplateListing) |->
        IF \E q \in Range(TemplateListing) : Under(q, p)
        THEN DirEntry
        ELSE FileEntry(TemplateText(p))]

GenTrees ==
    { FullTree,
      Drop(FullTree, Join(TBase, Ejs(NTrouble))),
      Put(FullTree, Join(TPrisma, Ejs(NAdditions)), FileEntry(BadAdditionsText)),
      Put(FullTree, Join(TBase, Ejs(NPkg)), FileEntry(BadPkgText)) }

GenConfigs ==
    { Data("prisma", "postgres", TRUE), Data("typeorm", "mysql", TRUE),
      Data("prisma", "mysql", FALSE), Data("typeorm", "postgres", FALSE) }

InitGen ==
    /\ fs \in {EmptyFs, (Root :> DirEntry)}
    /\ rollbackStack = <<>>
    /\ last = NoLast
    /\ tpl \in GenTrees
    /\ cwdTpl \in {EmptyFs, tpl}
    /\ mem = EmptyFs
    /\ disk = EmptyFs
    /\ lastRender = NoRender
    /\ GenIdle
    /\ call = NoCall
    /\ TimeIdle

\* try { await errorHandler.addRollbackPoint(genProjectPath); const steps = ...
GenStart(path, d) ==
    /\ pc = "idle"
    /\ rollbackStack' = addRollbackPoint(rollbackStack, path)
    /\ genProjectPath' = path
    /\ genData' = d
    /\ steps' = StepNames(d)
    /\ currentStep' = 0
    /\ pc' = "running"
    /\ UNCHANGED <<now, mtime, call, fs, last, cacheVars, started, caught, rolled, raised>>

\* The number of fallible file operations of the next step.
StepOps ==
    StepAction(NewSt(fs, rollbackStack, mem, disk, 0),
               steps[currentStep + 1], genProjectPath, genData).n

\* One turn of the loop of runSteps: the action of the next step, in which
\* the file operation numbered failAt throws (none for 0).
RunStepAt(failAt) ==
    /\ pc = "running"
    /\ currentStep < Len(steps)
    /\ LET idx == currentStep + 1
           name == steps[idx]
       IN \E st \in {StepAction(NewSt(fs, rollbackStack, mem, disk, failAt),
                                 name, genProjectPath, genData)} :
          /\ currentStep' = idx
          /\ started' = Append(started, name)
          /\ fs' = st.fs
          /\ rollbackStack' = st.stack
          /\ mem' = st.mem
          /\ disk' = st.disk
          /\ caught' = IF Ok(st) THEN caught
                       ELSE [step |-> name, index |-> idx, err |-> st.err,
                             preFs |-> fs]
          /\ pc' = runStepsNext(Ok(st), idx, Len(steps))
    /\ UNCHANGED <<now, mtime, call, last, tpl, cwdTpl, lastRender, genData, genProjectPath, steps,
                   rolled, raised>>

RunStep ==
    /\ pc = "running"
    /\ currentStep < Len(steps)
    /\ \E failAt \in 0..StepOps : RunStepAt(failAt)

\* catch (error) { await errorHandler.handleError(...)
GenHandleErrorWith(failSet) ==
    /\ pc = "caught"
    /\ \E r \in {handleError(fs, rollbackStack, failSet)} :
       /\ fs' = r.fs
       /\ rollbackStack' = r.stack
       /\ rolled' = [done |-> TRUE, failed |-> r.failed]
       /\ pc' = IF r.thrown THEN "thrown" ELSE "rethrow"
       /\ raised' = IF r.thrown THEN "RollbackError" ELSE raised
    /\ UNCHANGED <<now, mtime, call, last, cacheVars, genData, genProjectPath, steps, currentStep,
                   started, caught>>

GenHandleError ==
    \E failSet \in FailSets(TrackedPaths(rollbackStack) \cup {genProjectPath}) :
        GenHandleErrorWith(failSet)

\* throw error }
GenRethrow ==
    /\ pc = "rethrow"
    /\ pc' = "thrown"
    /\ raised' = caught.err
    /\ UNCHANGED <<now, mtime, call, ledgerVars, cacheVars, genData, genProjectPath, steps, currentStep,
                   started, caught, rolled>>

NextGen ==
    \/ \E d \in GenConfigs : GenStart(Root, d)
    \/ RunStep
    \/ GenHandleError
    \/ GenRethrow

SpecGen == InitGen /\ [][NextGen]_vars

\* C4: once a step has failed no later step is started, and the caller has
\* the error only after handleError has run the rollback.
C4_AbortRollbackThenRaise ==
    /\ caught.index > 0 =>
          /\ pc \in {"caught", "rethrow", "thrown"}
          /\ Len(started) = caught.index
          /\ currentStep = caught.index
          /\ started = SubSeq(steps, 1, caught.index)
    /\ pc = "thrown" => (caught.index > 0 /\ rolled.done /\ rollbackStack = <<>>)

C4_Witness ==
    /\ pc = "thrown"
    /\ rolled.done
    /\ caught.index >= 2
    /\ caught.index < Len(steps)

\* C5: the error the caller receives is the error of the failing step, also
\* when removals failed during the rollback.
C5_OriginalErrorRaised ==
    pc = "thrown" => (raised # "" /\ raised = caught.err)

C5_Witness ==
    /\ pc = "thrown"
    /\ rolled.failed # {}
    /\ raised = caught.err

\* C6: after a failed step and a rollback in which every removal succeeded
\* the project directory is absent or empty.
C6_NothingRemains ==
    (pc = "thrown" /\ rolled.failed = {}) =>
        (~pathExists(fs, genProjectPath) \/ readdir(fs, genProjectPath) = {})

\* C7: once generateProjectStructure has ended, by returning or by throwing,
\* the rollback stack is empty.
C7_LedgerEmptyAtEnd ==
    pc \in {"returned", "thrown"} => rollbackStack = <<>>

\* TemplateData.database
Databases == {"postgres", "mysql", "sqlite", "mongodb"}

\* C11: the project never holds the output of a docker-compose.<db>.yml.ejs
\* of the base tree whose database is not the configured one.
C11_SkippedNeverWritten ==
    \A db \in Databases \ {genData.database} :
        \A p \in DOMAIN fs : Basename(p) # ComposeName(db)

C11_Witness ==
    /\ currentStep >= 1
    /\ caught.index = 0
    /\ genData.database = "postgres"
    /\ Join(TBase, Ejs(ComposeName("mysql"))) \in DOMAIN tpl
    /\ Join(genProjectPath, ComposeName("postgres")) \in DOMAIN fs

\* The text a manifest template renders to is not JSON.
Unparseable(t) == ~JsonParse(ejsRender(tpl[t].content, genData)).ok

\* C13: when the base or the additions manifest does not parse, the merge
\* step fails, the manifest at the target is as it was before the step, and
\* the caller has the error only after the rollback.
C13_MalformedManifestFails ==
    LET basePackagePath == Join(TBase, Ejs(NPkg))
        additionsPath == Join(<<genData.orm>>, Ejs(NAdditions))
        targetPath == Join(genProjectPath, NPkg)
    IN ( /\ "merge" \in Range(started)
         /\ additionsPath \in DOMAIN tpl
         /\ Unparseable(basePackagePath) \/ Unparseable(additionsPath) )
       => /\ caught.step = "merge"
          /\ pc \in {"caught", "rethrow", "thrown"}
          /\ pc = "caught" =>
                /\ targetPath \in DOMAIN fs <=> targetPath \in DOMAIN caught.preFs
                /\ targetPath \in DOMAIN fs => fs[targetPath] = caught.preFs[targetPath]
          /\ pc = "thrown" => rolled.done

C13_Witness ==
    /\ pc = "thrown"
    /\ caught.err = "SyntaxError"
    /\ rolled.done
    /\ Unparseable(Join(TBase, Ejs(NPkg)))
    /\ Join(genProjectPath, NPkg) \in DOMAIN caught.preFs

(***************************************************************************)
(* mergePackageJson called on its own, over manifests of every shape       *)
(***************************************************************************)
BasePkgT == Join(TBase, Ejs(NPkg))
AdditionsT == Join(TPrisma, Ejs(NAdditions))
TargetPkg == Join(Root, NPkg)

Scalar(k, v) == Member(k, FALSE, v, <<>>)
Mapping(k, m) == Member(k, TRUE, "", m)

\* A manifest with or without the sub-mapping k.
Optional(k, maps) == {<<>>} \cup {<<Mapping(k, m)>> : m \in maps}

BaseDeps ==
    { <<>>, <<Scalar("a", "1")>>, <<Scalar("a", "1"), Scalar("b", "1")>> }

AddDeps ==
    { <<>>, <<Scalar("a", "2")>>, <<Scalar("c", "2")>>,
      <<Scalar("c", "2"), Scalar("a", "2")>> }

BaseDocs ==
    { <<Scalar("name", "<%=projectName%>")>> \o d \o sc :
        d \in Optional("dependencies", BaseDeps),
        sc \in Optional("scripts", {<<Scalar("build", "tsc")>>}) }

\* The additions carry the three merged mappings or not, and with or without
\* a top-level key of their own (the seed command of the ORM).
AdditionsDocs ==
    { d \o dd \o sc \o own :
        d \in Optional("dependencies", AddDeps),
        dd \in Optional("devDependencies", {<<Scalar("jest", "1")>>}),
        sc \in Optional("scripts", {<<Scalar("build", "nest"), Scalar("db", "prisma")>>}),
        own \in Optional("prisma", {<<Scalar("seed", "ts-node")>>}) }

ManifestTree(baseText, additionsText) ==
    (TBase :> DirEntry) @@ (TPrisma :> DirEntry)
        @@ (BasePkgT :> FileEntry(baseText)) @@ (AdditionsT :> FileEntry(additionsText))

InitMerge ==
    /\ \E b \in BaseDocs, a \in AdditionsDocs :
          tpl = ManifestTree(JsonStringify(b), JsonStringify(a))
    /\ cwdTpl \in {EmptyFs, tpl}
    /\ fs \in { (Root :> DirEntry),
                (Root :> DirEntry) @@ (TargetPkg :> FileEntry(ejsRender(PkgText, DataA))) }
    /\ rollbackStack = <<>>
    /\ last = NoLast
    /\ mem = EmptyFs
    /\ disk = EmptyFs
    /\ lastRender = NoRender
    /\ GenIdle
    /\ call = NoCall
    /\ TimeIdle

MergeOps ==
    mergePackageJson(NewSt(fs, rollbackStack, mem, disk, 0),
                     BasePkgT, AdditionsT, TargetPkg, DataA).n

\* await templateManager.mergePackageJson('base/package.json.ejs', additionsPath,
\* path.join(projectPath, 'package.json'), data), in which the file
\* operation numbered failAt throws.
MergePackageJson ==
    \E failAt \in 0..MergeOps :
        \E st \in {mergePackageJson(NewSt(fs, rollbackStack, mem, disk, failAt),
                                    BasePkgT, AdditionsT, TargetPkg, DataA)} :
            /\ fs' = st.fs
            /\ rollbackStack' = st.stack
            /\ mem' = st.mem
            /\ disk' = st.disk
            /\ call' = [op |-> "mergePackageJson", err |-> st.err, preFs |-> fs]
            /\ UNCHANGED <<now, mtime, last, tpl, cwdTpl, lastRender, genVars>>

NextMerge ==
    \/ MergePackageJson
    \/ RestartProcess

SpecMerge == InitMerge /\ [][NextMerge]_vars

Keys(m) == {m[i].k : i \in 1..Len(m)}

ValueOf(m, j) == m[CHOOSE i \in 1..Len(m) : m[i].k = j].v

SubMapping(doc, k) == doc[CHOOSE i \in 1..Len(doc) : doc[i].k = k].m

\* C12: in the manifest that a merge wrote, each of dependencies,
\* devDependencies and scripts holds for every key the additions value if
\* the additions have the key and the base value otherwise; a sub-mapping
\* the additions lack is as in the base.
C12_MergeByKey ==
    (call.op = "mergePackageJson" /\ call.err = "") =>
        LET base == JsonParse(ejsRender(tpl[BasePkgT].content, DataA)).doc
            add == JsonParse(ejsRender(tpl[AdditionsT].content, DataA)).doc
            out == JsonParse(fs[TargetPkg].content)
        IN /\ out.ok
           /\ \A k \in {"dependencies", "devDependencies", "scripts"} :
                IF k \notin Keys(add)
                THEN /\ k \in Keys(out.doc) <=> k \in Keys(base)
                     /\ k \in Keys(base) => GetKey(out.doc, k) = GetKey(base, k)
                ELSE LET b == IF k \in Keys(base) THEN SubMapping(base, k) ELSE <<>>
                         a == SubMapping(add, k)
                         o == SubMapping(out.doc, k)
                     IN /\ k \in Keys(out.doc)
                        /\ Keys(o) = Keys(b) \cup Keys(a)
                        /\ Len(o) = Cardinality(Keys(o))
                        /\ \A j \in Keys(o) :
                              ValueOf(o, j) = IF j \in Keys(a) THEN ValueOf(a, j)
                                              ELSE ValueOf(b, j)

C12_Witness ==
    /\ call.op = "mergePackageJson"
    /\ call.err = ""
    /\ LET base == JsonParse(ejsRender(tpl[BasePkgT].content, DataA)).doc
           add == JsonParse(ejsRender(tpl[AdditionsT].content, DataA)).doc
       IN /\ "dependencies" \in Keys(base) /\ "dependencies" \in Keys(add)
          /\ Keys(SubMapping(base, "dependencies")) = {"a", "b"}
          /\ Keys(SubMapping(add, "dependencies")) = {"a", "c"}
          /\ "devDependencies" \in Keys(add)
          /\ "scripts" \notin Keys(add) /\ "scripts" \in Keys(base)

(***************************************************************************)
(* validation.ts                                                           *)
(***************************************************************************)
\* Characters of /^[a-z0-9-]+$/ and characters outside it.
NameChars == {"a", "-"}
OtherChars == {"A"}

MaxNameLen == 2

MaxProjectNameLength == 50

\* projectNameSchema: min(1), max(50), the pattern, no hyphen first or last.
validateProjectName(projectName) ==
    /\ Len(projectName) >= 1
    /\ Len(projectName) <= MaxProjectNameLength
    /\ \A i \in 1..Len(projectName) : projectName[i] \in NameChars
    /\ projectName[1] # "-"
    /\ projectName[Len(projectName)] # "-"

validateORM(orm) == orm \in {"prisma", "typeorm", "sequelize"}

validateDatabase(database) == database \in Databases

validatePackageManager(pm) == pm \in {"npm", "yarn", "pnpm"}

FirstInvalidNameOnly(userInputs) ==
    IF ~validateProjectName(userInputs.projectName) THEN "Invalid project name"
    ELSE ""

\* The first validation that is not valid, in the order of the list.
FirstInvalid(userInputs) ==
    IF ~validateProjectName(userInputs.projectName) THEN "Invalid project name"
    ELSE IF ~validateORM(userInputs.orm) THEN "Invalid ORM selection"
    ELSE IF ~validateDatabase(userInputs.database) THEN "Invalid database selection"
    ELSE IF ~validatePackageManager(userInputs.packageManager)
    THEN "Invalid package manager selection"
    ELSE ""

RECURSIVE NameString(_)
\* The characters of a name as one string.
NameString(chars) ==
    IF chars = <<>> THEN "" ELSE Head(chars) \o NameString(Tail(chars))

(***************************************************************************)
(* generateProjectStructure and generateProject as whole calls             *)
(***************************************************************************)
RECURSIVE runSteps(_, _, _, _)
\* ProgressIndicator.runSteps: the actions in order, up to the first throw.
runSteps(st, names, projectPath, data) ==
    IF names = <<>> \/ ~Ok(st) THEN st
    ELSE Await(StepAction(st, Head(names), projectPath, data), LAMBDA s :
             runSteps(s, Tail(names), projectPath, data))

\* generateProjectStructure: the checkpoint, the steps, and in the catch
\* handleError (in which the removals of failSet fail) before the rethrow.
generateProjectStructure(st, projectPath, data, failSet) ==
    IF ~Ok(st) THEN st
    ELSE Await([st EXCEPT !.stack = addRollbackPoint(@, projectPath),
                          !.ev = @ \cup {"generateProjectStructure"}], LAMBDA s0 :
         Await(runSteps(s0, StepNames(data), projectPath, data), LAMBDA s1 :
             IF Ok(s1) THEN s1
             ELSE Await(handleError(s1.fs, s1.stack, failSet), LAMBDA r :
                      [s1 EXCEPT !.fs = r.fs, !.stack = r.stack,
                                 !.ev = @ \cup {"rolledBack"}])))

NDockerfile == <<"Dockerfile">>
NTest == <<"test">>
NJestConfig == <<"jest", ".", "config", ".", "js">>

\* generateDockerFiles: the Dockerfile of the package manager.
generateDockerFiles(st, projectPath, templateData) ==
    writeFile(st, Join(projectPath, NDockerfile),
              <<"Dockerfile", templateData.packageManager, templateData.projectName,
                BoolText(templateData.orm = "prisma")>>)

generateTestingSetup(st, projectPath) ==
    Await(ensureDir(st, Join(projectPath, NTest)), LAMBDA s1 :
        writeFile(s1, Join(projectPath, NJestConfig), <<"jestConfig">>))

\* A runPostGenerationSteps in which a failed build makes the result a
\* failure.
runPostGenerationStepsBuildCounts(f, projectPath, templateData, installOk, prismaOk, buildOk) ==
    LET Caught(errors) ==
            [success |-> FALSE,
             errors |-> Append(errors, "Post-generation failed"),
             warnings |-> <<>>]
        missing ==
            (IF pathExists(f, Join(projectPath, NPkg)) THEN <<>>
             ELSE <<"Missing required file: package.json">>)
            \o (IF templateData.orm = "prisma"
                   /\ ~pathExists(f, JoinAll(<<projectPath, <<"prisma">>, NSchema>>))
                THEN <<"Missing required file: Prisma schema">>
                ELSE <<>>)
    IN IF ~installOk THEN Caught(<<"Failed to install dependencies">>)
       ELSE IF templateData.orm = "prisma" /\ ~prismaOk
       THEN Caught(<<"Failed to generate Prisma client">>)
       ELSE LET built == IF buildOk THEN <<>> ELSE <<"Failed to build project">>
                errors == built \o missing
            IN [success |-> Len(errors) = 0,
                errors |-> errors,
                warnings |-> IF buildOk THEN <<>> ELSE <<"Build step skipped">>]

\* PostGenerationManager.runPostGenerationSteps, given whether the install,
\* the Prisma client generation and the build command succeed.
runPostGenerationSteps(f, projectPath, templateData, installOk, prismaOk, buildOk) ==
    LET Caught(errors) ==
            [success |-> FALSE,
             errors |-> Append(errors, "Post-generation failed"),
             warnings |-> <<>>]
        missing ==
            (IF pathExists(f, Join(projectPath, NPkg)) THEN <<>>
             ELSE <<"Missing required file: package.json">>)
            \o (IF templateData.orm = "prisma"
                   /\ ~pathExists(f, JoinAll(<<projectPath, <<"prisma">>, NSchema>>))
                THEN <<"Missing required file: Prisma schema">>
                ELSE <<>>)
    IN IF ~installOk THEN Caught(<<"Failed to install dependencies">>)
       ELSE IF templateData.orm = "prisma" /\ ~prismaOk
       THEN Caught(<<"Failed to generate Prisma client">>)
       ELSE LET built == IF buildOk THEN <<>> ELSE <<"Failed to build project">>
                errors == built \o missing
                coreStepsSuccessful ==
                    \/ Len(errors) = 0
                    \/ Len(errors) = 1 /\ errors[1] = "Failed to build project"
            IN [success |-> IF coreStepsSuccessful THEN TRUE
                            ELSE buildOk /\ missing = <<>>,
                errors |-> errors,
                warnings |-> IF buildOk THEN <<>> ELSE <<"Build step skipped">>]

\* The TemplateData that generateProject builds from its UserInputs.
TemplateDataOf(userInputs) ==
    [projectName |-> NameString(userInputs.projectName),
     orm |-> userInputs.orm,
     database |-> userInputs.database,
     packageManager |-> userInputs.packageManager,
     docker |-> userInputs.docker,
     testing |-> userInputs.testing]

\* A generateProject that does not ask whether the directory exists.
generateProjectOverwrite(st, userInputs, failSet, installOk, prismaOk, buildOk) ==
    LET projectPath == userInputs.projectName
        templateData == TemplateDataOf(userInputs)
    IN IF FirstInvalid(userInputs) # ""
       THEN [st EXCEPT !.err = FirstInvalid(userInputs)]
       ELSE Await(ensureDir(st, projectPath), LAMBDA s1 :
            Await(generateProjectStructure(s1, projectPath, templateData, failSet),
                  LAMBDA s2 :
            Await(IF userInputs.docker
                  THEN generateDockerFiles(s2, projectPath, templateData)
                  ELSE s2, LAMBDA s3 :
            Await(IF userInputs.testing
                  THEN generateTestingSetup(s3, projectPath)
                  ELSE s3, LAMBDA s4 :
                IF Ok(s4)
                THEN [s4 EXCEPT !.ret = runPostGenerationSteps(
                                            s4.fs, projectPath, templateData,
                                            installOk, prismaOk, buildOk)]
                ELSE IF pathExists(s4.fs, projectPath)
                THEN IF projectPath \in failSet
                     THEN [s4 EXCEPT !.err = "RemoveError"]
                     ELSE [s4 EXCEPT !.fs = remove(@, projectPath)]
                ELSE s4))))

\* generateProject: the validations, the existence check, then inside the
\* try the directory, the structure, the Docker and test files and the
\* post-generation steps; the catch removes the project directory.
generateProject(st, userInputs, failSet, installOk, prismaOk, buildOk) ==
    LET projectPath == userInputs.projectName
        templateData == TemplateDataOf(userInputs)
    IN IF FirstInvalid(userInputs) # ""
       THEN [st EXCEPT !.err = FirstInvalid(userInputs)]
       ELSE IF pathExists(st.fs, projectPath)
       THEN [st EXCEPT !.err = "AlreadyExists"]
       ELSE Await(ensureDir(st, projectPath), LAMBDA s1 :
            Await(generateProjectStructure(s1, projectPath, templateData, failSet),
                  LAMBDA s2 :
            Await(IF userInputs.docker
                  THEN generateDockerFiles(s2, projectPath, templateData)
                  ELSE s2, LAMBDA s3 :
            Await(IF userInputs.testing
                  THEN generateTestingSetup(s3, projectPath)
                  ELSE s3, LAMBDA s4 :
                IF Ok(s4)
                THEN [s4 EXCEPT !.ret = runPostGenerationSteps(
                                            s4.fs, projectPath, templateData,
                                            installOk, prismaOk, buildOk)]
                ELSE IF pathExists(s4.fs, projectPath)
                THEN IF projectPath \in failSet
                     THEN [s4 EXCEPT !.err = "RemoveError"]
                     ELSE [s4 EXCEPT !.fs = remove(@, projectPath)]
                ELSE s4))))

(***************************************************************************)
(* One run of the command: generateProject is called once with the answers *)
(* of the prompts.                                                         *)
(***************************************************************************)
TypedChars == NameChars \cup OtherChars

\* The names of MaxNameLen characters at most, and a name of n times "a".
ShortNames == UNION {[1..n -> TypedChars] : n \in 0..MaxNameLen}

Repeat(c, n) == [i \in 1..n |-> c]

ProjectNames ==
    ShortNames \cup {Repeat("a", MaxProjectNameLength),
                     Repeat("a", MaxProjectNameLength + 1)}

Inputs(projectName, orm, database, packageManager, docker, testing) ==
    [projectName |-> projectName, orm |-> orm, database |-> database,
     packageManager |-> packageManager, docker |-> docker, testing |-> testing]

\* The other answers: two records of the enumerations, and records with a
\* value outside them.
OptionSets ==
    { <<"prisma", "postgres", "npm", TRUE, TRUE>>,
      <<"typeorm", "mysql", "yarn", FALSE, FALSE>>,
      <<"mongoose", "postgres", "npm", TRUE, TRUE>>,
      <<"prisma", "oracle", "npm", TRUE, FALSE>>,
      <<"typeorm", "mysql", "pip", FALSE, TRUE>>,
      <<"mongoose", "oracle", "pip", FALSE, FALSE>> }

AllUserInputs ==
    { Inputs(name, o[1], o[2], o[3], o[4], o[5]) : name \in ProjectNames, o \in OptionSets }

ExistingDir == <<"a">>

NNotes == <<"notes", ".", "txt">>

InitProject ==
    /\ fs \in { EmptyFs,
                (ExistingDir :> DirEntry)
                    @@ (Join(ExistingDir, NNotes) :> FileEntry(<<"keep">>)) }
    /\ rollbackStack = <<>>
    /\ last = NoLast
    /\ tpl = FullTree
    /\ cwdTpl \in {EmptyFs, tpl}
    /\ mem = EmptyFs
    /\ disk = EmptyFs
    /\ lastRender = NoRender
    /\ GenIdle
    /\ call = NoCall
    /\ TimeIdle

\* The number of fallible file operations of a run without a fault.
ProjectOps(userInputs) ==
    generateProject(NewSt(fs, rollbackStack, mem, disk, 0), userInputs, {},
                    TRUE, TRUE, TRUE).n

\* The removals that may fail during the rollback and the cleanup.
ProjectFailSets(userInputs) ==
    { {}, {userInputs.projectName}, {Join(userInputs.projectName, NPkg)} }

GenerateProjectWith(userInputs, failAt, failSet, installOk, prismaOk, buildOk) ==
    /\ call.op = "none"
    /\ \E st \in {generateProject(NewSt(fs, rollbackStack, mem, disk, failAt),
                                  userInputs, failSet, installOk, prismaOk, buildOk)} :
          /\ fs' = st.fs
          /\ rollbackStack' = st.stack
          /\ mem' = st.mem
          /\ disk' = st.disk
          /\ call' = [op |-> "generateProject", userInputs |-> userInputs,
                      err |-> st.err, ev |-> st.ev, result |-> st.ret,
                      preFs |-> fs, preStack |-> rollbackStack,
                      preMem |-> mem, preDisk |-> disk,
                      installOk |-> installOk, prismaOk |-> prismaOk,
                      buildOk |-> buildOk]
    /\ UNCHANGED <<now, mtime, last, tpl, cwdTpl, lastRender, genVars>>

\* await generateProject(userInputs): without a fault under every outcome of
\* the commands, and with the file operation numbered failAt throwing.
GenerateProject ==
    \E userInputs \in AllUserInputs :
        \/ \E installOk, prismaOk, buildOk \in BOOLEAN :
              GenerateProjectWith(userInputs, 0, {}, installOk, prismaOk, buildOk)
        \/ \E failAt \in 1..ProjectOps(userInputs) :
              \E failSet \in ProjectFailSets(userInputs) :
                  GenerateProjectWith(userInputs, failAt, failSet, TRUE, TRUE, TRUE)

NextProject ==
    \/ GenerateProject
    \/ RestartProcess

SpecProject == InitProject /\ [][NextProject]_vars

\* C14: when projectName, orm, database or packageManager fails its pattern or
\* enumeration check, generateProject fails with the validation error, no
\* file or directory has been created or written, nothing was tracked or
\* cached, and generateProjectStructure was not called.
InvalidConfiguration(userInputs) ==
    LET name == userInputs.projectName
    IN \/ Len(name) = 0
       \/ Len(name) > 50
       \/ \E i \in 1..Len(name) : name[i] \notin {"a", "-"}
       \/ name[1] = "-"
       \/ name[Len(name)] = "-"
       \/ userInputs.orm \notin {"prisma", "typeorm", "sequelize"}
       \/ userInputs.database \notin {"postgres", "mysql", "sqlite", "mongodb"}
       \/ userInputs.packageManager \notin {"npm", "yarn", "pnpm"}

C14_InvalidNeverReachesAssembler ==
    (call.op = "generateProject" /\ InvalidConfiguration(call.userInputs))
        => /\ call.err \notin {"", "AlreadyExists"}
           /\ fs = call.preFs
           /\ rollbackStack = call.preStack
           /\ mem = call.preMem
           /\ disk = call.preDisk
           /\ "generateProjectStructure" \notin call.ev

C14_Witness ==
    /\ call.op = "generateProject"
    /\ call.userInputs.projectName = <<"a", "-">>
    /\ call.userInputs.orm = "prisma"
    /\ call.err # ""
    /\ call.preFs # EmptyFs

(***************************************************************************)
(* Successive generations in one working directory                         *)
(***************************************************************************)
MaxGenerations == 2
MaxFaultAt == 2

Generations == IF call.op = "generateProjectStructure" THEN call.count ELSE 0

InitTwice ==
    /\ fs \in {EmptyFs, (Root :> DirEntry)}
    /\ rollbackStack = <<>>
    /\ last = NoLast
    /\ tpl = FullTree
    /\ cwdTpl \in {EmptyFs, tpl}
    /\ mem = EmptyFs
    /\ disk = EmptyFs
    /\ lastRender = NoRender
    /\ GenIdle
    /\ call = NoCall
    /\ TimeIdle

\* await templateManager.generateProjectStructure(Root, data), in which the
\* file operation numbered failAt throws (none for 0).
GenerateStructure(data, failAt) ==
    /\ Generations < MaxGenerations
    /\ \E st \in {generateProjectStructure(NewSt(fs, rollbackStack, mem, disk, failAt),
                                           Root, data, {})} :
          /\ fs' = st.fs
          /\ rollbackStack' = st.stack
          /\ mem' = st.mem
          /\ disk' = st.disk
          /\ call' = [op |-> "generateProjectStructure", data |-> data,
                      err |-> st.err, ev |-> st.ev, failAt |-> failAt,
                      count |-> Generations + 1,
                      prevData |-> IF Generations = 0 THEN data ELSE call.data,
                      prevErr |-> IF Generations = 0 THEN "none" ELSE call.err,
                      preMem |-> mem, preDisk |-> disk]
    /\ UNCHANGED <<now, mtime, last, tpl, cwdTpl, lastRender, genVars>>

\* The project directory is deleted between two generations.
RemoveProject ==
    /\ pathExists(fs, Root)
    /\ Generations \in 1..(MaxGenerations - 1)
    /\ fs' = remove(fs, Root)
    /\ UNCHANGED <<now, mtime, call, rollbackStack, last, cacheVars, genVars>>

NextTwice ==
    \/ \E data \in GenConfigs, failAt \in 0..MaxFaultAt : GenerateStructure(data, failAt)
    \/ RemoveProject
    \/ RestartProcess

SpecTwice == InitTwice /\ [][NextTwice]_vars

\* C15: in a generation without a fault that follows a successful generation
\* with the same configuration, no template is read and expanded again,
\* neither by renderTemplate nor while a directory tree is copied, and no
\* cache entry is added.
C15_SecondGenerationAllHits ==
    (/\ call.op = "generateProjectStructure"
     /\ call.count >= 2
     /\ call.prevErr = ""
     /\ call.prevData = call.data
     /\ call.failAt = 0)
        => /\ call.err = ""
           /\ call.ev \cap {"readRaw", "renderedDirect", "stored"} = {}
           /\ DOMAIN disk = DOMAIN call.preDisk

(***************************************************************************)
(* Direct calls of the TemplateCache                                       *)
(***************************************************************************)
\* The calls made: two templates of the tree under one configuration.
ApiInputs == {<<ReadmeT, DataA>>, <<GitkeepT, DataA>>}

ContentX == <<"x">>
ContentY == <<"y">>

\* Each direct call differs from the one before it.
Turn == IF call.op = "none" THEN 0 ELSE 1 - call.turn

SetOps(t, d, x) ==
    setCachedTemplate(NewSt(fs, rollbackStack, mem, disk, 0), t, d, x).n

\* await templateCache.setCachedTemplate(t, d, x), in which the file
\* operation numbered failAt throws (none for 0).  A cache file that was
\* written has the time of the call as its modification time.
SetCachedTemplate(t, d, x) ==
    \E failAt \in 0..SetOps(t, d, x) :
        \E st \in {setCachedTemplate(NewSt(fs, rollbackStack, mem, disk, failAt),
                                     t, d, x)} :
            /\ mem' = st.mem
            /\ disk' = st.disk
            /\ mtime' = IF Ok(st) /\ "stored" \in st.ev
                         THEN Put(mtime, getCacheKey(t, d), now)
                         ELSE mtime
            /\ call' = [op |-> "setCachedTemplate", turn |-> Turn,
                        templatePath |-> t, data |-> d, content |-> x,
                        err |-> st.err, fault |-> st.fault,
                        tplThen |-> tpl, cwdTplThen |-> cwdTpl]
            /\ UNCHANGED <<now, ledgerVars, genVars, tpl, cwdTpl, lastRender>>

GetOps(t, d) ==
    getCachedTemplate(NewSt(fs, rollbackStack, mem, disk, 0), t, d).n

\* await templateCache.getCachedTemplate(t, d), likewise.
GetCachedTemplate(t, d) ==
    \E failAt \in 0..GetOps(t, d) :
        \E st \in {getCachedTemplate(NewSt(fs, rollbackStack, mem, disk, failAt), t, d)} :
            /\ mem' = st.mem
            /\ disk' = st.disk
            /\ mtime' = [k \in DOMAIN mtime \cap DOMAIN st.disk |-> mtime[k]]
            /\ call' = [op |-> "getCachedTemplate", turn |-> Turn,
                        templatePath |-> t, data |-> d,
                        err |-> st.err, fault |-> st.fault, ev |-> st.ev,
                        ret |-> st.ret,
                        wasCorrupt |-> /\ getCacheKey(t, d) \in DOMAIN disk
                                       /\ ~disk[getCacheKey(t, d)].ok,
                        wasInMemory |-> getCacheKey(t, d) \in DOMAIN mem,
                        before |-> IF call.op = "setCachedTemplate"
                                   THEN call ELSE NoCall]
            /\ UNCHANGED <<now, ledgerVars, genVars, tpl, cwdTpl, lastRender>>

NextCacheApi ==
    \/ \E c \in ApiInputs, x \in {ContentX, ContentY} : SetCachedTemplate(c[1], c[2], x)
    \/ \E c \in ApiInputs : GetCachedTemplate(c[1], c[2])
    \/ \E bytes \in {ReadmeV1, ReadmeV2} : MutateTemplate(ReadmeT, bytes, TRUE)
    \/ RestartProcess
    \/ \E c \in ApiInputs : CorruptCacheFile(getCacheKey(c[1], c[2]))

SpecCacheApi == InitCache /\ [][NextCacheApi]_vars

\* A step that is the direct call op.
Called(op) == call' # call /\ call'.op = op

\* C16: a setCachedTemplate(t, c, x) in which no file operation fails leaves
\* in the in-memory map and on disk an entry for the key of (t, c) with
\* content x, whatever was there before, and a getCachedTemplate(t, c) that
\* follows it while the template and the cache file are as they were
\* returns x.
C16_SetWritesBothTiers ==
    [][ /\ (Called("setCachedTemplate") /\ call'.fault = "") =>
              LET cacheKey == getCacheKey(call'.templatePath, call'.data) IN
              /\ call'.err = ""
              /\ cacheKey \in DOMAIN mem'
              /\ mem'[cacheKey].content = call'.content
              /\ cacheKey \in DOMAIN disk'
              /\ disk'[cacheKey].ok
              /\ disk'[cacheKey].entry.content = call'.content
        /\ (/\ Called("getCachedTemplate")
            /\ call'.fault = ""
            /\ call'.before.op = "setCachedTemplate"
            /\ call'.before.fault = ""
            /\ call'.before.templatePath = call'.templatePath
            /\ call'.before.data = call'.data
            /\ call'.before.tplThen = tpl
            /\ call'.before.cwdTplThen = cwdTpl
            /\ \A k \in DOMAIN disk : disk[k].ok) =>
              /\ call'.err = ""
              /\ call'.ret = call'.before.content ]_vars

\* C17 as stated: a getCachedTemplate on a key whose cache file is corrupted
\* returns absent without raising, and the file is gone afterwards.
C17_CorruptEntryAlwaysDiscarded ==
    (call.op = "getCachedTemplate" /\ call.wasCorrupt) =>
        /\ call.err = ""
        /\ call.ret = <<>>
        /\ call.ev \cap {"memHit", "diskHit"} = {}
        /\ getCacheKey(call.templatePath, call.data) \notin DOMAIN disk

\* C17: a getCachedTemplate on a key that has no in-memory entry and whose
\* cache file is corrupted returns absent without raising, and the file is
\* gone afterwards unless its removal failed.
C17_CorruptEntryIsMiss ==
    (call.op = "getCachedTemplate" /\ call.wasCorrupt /\ ~call.wasInMemory) =>
        /\ call.err = ""
        /\ call.ret = <<>>
        /\ call.ev \cap {"memHit", "diskHit"} = {}
        /\ call.fault # "cacheRemove" =>
              getCacheKey(call.templatePath, call.data) \notin DOMAIN disk

C17_Witness ==
    /\ call.op = "getCachedTemplate"
    /\ call.wasCorrupt
    /\ ~call.wasInMemory
    /\ call.fault = ""
    /\ call.ret = <<>>
    /\ getCacheKey(call.templatePath, call.data) \notin DOMAIN disk

(***************************************************************************)
(* TemplateCache.cleanupOldCache                                           *)
(***************************************************************************)
MaxTime == 3

cleanupOldCacheInclusive(d, times, t, maxAge, failSet) ==
    LET removed == {k \in DOMAIN d : k \notin failSet /\ t - times[k] >= maxAge}
    IN [disk |-> [k \in DOMAIN d \ removed |-> d[k]],
        mtime |-> [k \in DOMAIN times \ removed |-> times[k]]]

\* The loop over the files of the cache directory at time t: a file whose
\* stat or removal throws (failSet) is left, the others are removed when
\* now - mtime > maxAge.
cleanupOldCache(d, times, t, maxAge, failSet) ==
    LET removed == {k \in DOMAIN d : k \notin failSet /\ t - times[k] > maxAge}
    IN [disk |-> [k \in DOMAIN d \ removed |-> d[k]],
        mtime |-> [k \in DOMAIN times \ removed |-> times[k]]]

\* await templateCache.cleanupOldCache(maxAge); listFails says that the
\* readdir of the cache directory throws.
CleanupOldCache(maxAge, failSet, listFails) ==
    \E r \in {IF listFails THEN [disk |-> disk, mtime |-> mtime]
               ELSE cleanupOldCache(disk, mtime, now, maxAge, failSet)} :
        /\ disk' = r.disk
        /\ mtime' = r.mtime
        /\ call' = [op |-> "cleanupOldCache", turn |-> Turn,
                    maxAge |-> maxAge, failSet |-> failSet,
                    err |-> IF listFails THEN "FsError" ELSE "",
                    removed |-> DOMAIN disk \ DOMAIN r.disk,
                    kept |-> DOMAIN r.disk]
        /\ UNCHANGED <<now, ledgerVars, genVars, tpl, cwdTpl, mem, lastRender>>

\* Time passes between two calls.
Advance ==
    /\ now < MaxTime
    /\ now' = now + 1
    /\ UNCHANGED <<mtime, call, ledgerVars, cacheVars, genVars>>

NextCleanup ==
    \/ \E c \in ApiInputs : SetCachedTemplate(c[1], c[2], ContentX)
    \/ \E maxAge \in 0..MaxTime, failSet \in SUBSET DOMAIN disk, listFails \in BOOLEAN :
          CleanupOldCache(maxAge, failSet, listFails)
    \/ Advance
    \/ RestartProcess

SpecCleanup == InitCache /\ [][NextCleanup]_vars

\* C18: a cleanupOldCache(maxAge) in which no file operation fails removes a
\* cache file exactly if its modification time plus maxAge lies before the
\* time of the call; the files it leaves and their modification times, and
\* the in-memory map, are as before.
C18_CleanupRemovesExactlyOld ==
    [][ (Called("cleanupOldCache") /\ call'.failSet = {} /\ call'.err = "") =>
            /\ \A k \in DOMAIN disk :
                  (k \notin DOMAIN disk') <=> (mtime[k] + call'.maxAge < now)
            /\ DOMAIN disk' \subseteq DOMAIN disk
            /\ \A k \in DOMAIN disk' : disk'[k] = disk[k] /\ mtime'[k] = mtime[k]
            /\ mem' = mem ]_vars

C18_Witness ==
    /\ call.op = "cleanupOldCache"
    /\ call.failSet = {}
    /\ call.err = ""
    /\ call.removed # {}
    /\ call.kept # {}
    /\ call.maxAge > 0
    /\ mem # EmptyFs

(***************************************************************************)
(* Direct calls of TemplateManager.copyDirectory                           *)
(***************************************************************************)
MaxCopies == 2

\* Directories of the template tree and names that are not in it.
CopySources == {TBase, TPrisma, <<"typeorm">>, <<"graphql">>}

Copies == IF call.op = "copyDirectory" THEN call.count ELSE 0

\* The target exists or not, and a checkpoint is open or not.
InitCopy ==
    /\ fs \in {EmptyFs, (Root :> DirEntry)}
    /\ rollbackStack \in {<<>>, addRollbackPoint(<<>>, Root)}
    /\ last = NoLast
    /\ tpl = FullTree
    /\ cwdTpl \in {EmptyFs, tpl}
    /\ mem = EmptyFs
    /\ disk = EmptyFs
    /\ lastRender = NoRender
    /\ GenIdle
    /\ call = NoCall
    /\ TimeIdle

\* The fallible file operations of a call that may throw: the first
\* MaxFaultAt of them.
CopyOps(sourceDir, targetDir, data) ==
    LET n == copyDirectory(NewSt(fs, rollbackStack, mem, disk, 0),
                           sourceDir, targetDir, data).n
    IN IF n < MaxFaultAt THEN n ELSE MaxFaultAt

\* await templateManager.copyDirectory(sourceDir, targetDir, data), in which
\* the file operation numbered failAt throws (none for 0).
CopyDirectory(sourceDir, targetDir, data) ==
    /\ Copies < MaxCopies
    /\ \E failAt \in 0..CopyOps(sourceDir, targetDir, data) :
          \E st \in {copyDirectory(NewSt(fs, rollbackStack, mem, disk, failAt),
                                   sourceDir, targetDir, data)} :
              /\ fs' = st.fs
              /\ rollbackStack' = st.stack
              /\ mem' = st.mem
              /\ disk' = st.disk
              /\ call' = [op |-> "copyDirectory", count |-> Copies + 1,
                          sourceDir |-> sourceDir, targetDir |-> targetDir,
                          data |-> data, failAt |-> failAt,
                          err |-> st.err, fault |-> st.fault,
                          preFs |-> fs, preStack |-> rollbackStack]
    /\ UNCHANGED <<now, mtime, last, tpl, cwdTpl, lastRender, genVars>>

NextCopy ==
    \E sourceDir \in CopySources, data \in GenConfigs :
        CopyDirectory(sourceDir, Root, data)

SpecCopy == InitCopy /\ [][NextCopy]_vars

LatestFiles(stack) == stack[Len(stack)].createdFiles
LatestDirs(stack) == stack[Len(stack)].createdDirs
OlderEntries(stack) == SubSeq(stack, 1, Len(stack) - 1)

\* C20: trackCreatedFile and trackCreatedDir put the path at the end of the
\* createdFiles, respectively createdDirs, of the most recent entry and
\* change nothing else of the stack or of the file system; when the stack is
\* empty it stays empty.
C20_TrackAppendsToLatest ==
    [][ /\ \A p \in TrackedFiles : TrackCreatedFile(p) =>
              /\ fs' = fs
              /\ Len(rollbackStack') = Len(rollbackStack)
              /\ rollbackStack # <<>> =>
                    /\ OlderEntries(rollbackStack') = OlderEntries(rollbackStack)
                    /\ LatestFiles(rollbackStack') = LatestFiles(rollbackStack) \o <<p>>
                    /\ LatestDirs(rollbackStack') = LatestDirs(rollbackStack)
                    /\ rollbackStack'[Len(rollbackStack)].projectPath
                          = rollbackStack[Len(rollbackStack)].projectPath
        /\ \A p \in TrackedDirs : TrackCreatedDir(p) =>
              /\ fs' = fs
              /\ Len(rollbackStack') = Len(rollbackStack)
              /\ rollbackStack # <<>> =>
                    /\ OlderEntries(rollbackStack') = OlderEntries(rollbackStack)
                    /\ LatestDirs(rollbackStack') = LatestDirs(rollbackStack) \o <<p>>
                    /\ LatestFiles(rollbackStack') = LatestFiles(rollbackStack)
                    /\ rollbackStack'[Len(rollbackStack)].projectPath
                          = rollbackStack[Len(rollbackStack)].projectPath ]_vars

C20_Witness ==
    /\ Len(rollbackStack) = 2
    /\ rollbackStack[1].createdFiles = <<PkgJson>>
    /\ rollbackStack[1].createdDirs = <<>>
    /\ rollbackStack[2].createdFiles = <<MainTs>>
    /\ rollbackStack[2].createdDirs = <<SrcDir>>

(***************************************************************************)
(* The docker directory                                                    *)
(***************************************************************************)
\* C21: the project holds a docker directory only once the Docker step was
\* started, and that step is one of the steps only when docker is true: the
\* copy of the base tree does not produce it, and with docker = false the
\* project never has it.
C21_DockerDirOnlyByDockerStep ==
    /\ "docker" \in Range(steps) <=> (pc # "idle" /\ genData.docker)
    /\ pathExists(fs, Join(Root, NDocker)) =>
          /\ genData.docker
          /\ "docker" \in Range(started)

C21_Witness ==
    /\ pc = "returned"
    /\ ~genData.docker
    /\ pathExists(tpl, JoinAll(<<TBase, NDocker, <<"postgres">>, NInitSql>>))
    /\ pathExists(fs, JoinAll(<<Root, NSrc, NMain>>))
    /\ ~pathExists(fs, Join(Root, NDocker))

(***************************************************************************)
(* PortScanner                                                             *)
(***************************************************************************)
MaxPort == 4

\* What the probe of a port finds: nothing listening, a listener, or a
\* command that fails.
ProbeOutcomes == {"free", "occupied", "error"}

\* checkPort: the PortInfo, or the error it throws.
checkPort(outcome) ==
    [isOccupied |-> outcome = "occupied",
     err |-> IF outcome = "error" THEN "Failed to check port" ELSE ""]

isPortAvailableStrict(outcome) ==
    IF checkPort(outcome).err # "" THEN FALSE
    ELSE ~checkPort(outcome).isOccupied

\* isPortAvailable: an error of checkPort is caught and counts as available.
isPortAvailable(outcome) ==
    IF checkPort(outcome).err # "" THEN TRUE
    ELSE ~checkPort(outcome).isOccupied

RECURSIVE FindFrom(_, _, _, _)
\* The loop of findAvailablePort from port on; probed are the ports tested
\* so far, in order.
FindFrom(probes, port, endPort, probed) ==
    IF port > endPort
    THEN [port |-> 0, err |-> "NoAvailablePort", probed |-> probed]
    ELSE IF isPortAvailable(probes[port])
    THEN [port |-> port, err |-> "", probed |-> Append(probed, port)]
    ELSE FindFrom(probes, port + 1, endPort, Append(probed, port))

findAvailablePort(probes, startPort, endPort) ==
    FindFrom(probes, startPort, endPort, <<>>)

InitPorts ==
    /\ LedgerIdle
    /\ CacheIdle
    /\ GenIdle
    /\ call = NoCall
    /\ TimeIdle

\* await portScanner.findAvailablePort(startPort, endPort) while the probe of
\* port p finds probes[p]; the scanner keeps no state, so one call is looked
\* at.
FindAvailablePort(probes, startPort, endPort) ==
    /\ call.op = "none"
    /\ \E r \in {findAvailablePort(probes, startPort, endPort)} :
          call' = [op |-> "findAvailablePort", probes |-> probes,
                   startPort |-> startPort, endPort |-> endPort,
                   port |-> r.port, err |-> r.err, probed |-> r.probed]
    /\ UNCHANGED <<now, mtime, ledgerVars, cacheVars, genVars>>

NextPorts ==
    \E probes \in [1..MaxPort -> ProbeOutcomes], startPort, endPort \in 1..MaxPort :
        FindAvailablePort(probes, startPort, endPort)

SpecPorts == InitPorts /\ [][NextPorts]_vars

\* C22: findAvailablePort(start, end) returns the smallest port of the range
\* whose probe does not find it occupied, a failed probe counting as not
\* occupied, after probing the ports from start up to it in ascending order;
\* it fails with the no-available-port error exactly when every port of the
\* range is occupied.
C22_SmallestAvailablePort ==
    call.op = "findAvailablePort" =>
        LET range == call.startPort..call.endPort
            available == {p \in range : call.probes[p] # "occupied"}
        IN /\ call.err = "NoAvailablePort" <=> available = {}
           /\ call.err \in {"", "NoAvailablePort"}
           /\ call.err = "" =>
                 /\ call.port \in available
                 /\ \A p \in available : call.port <= p
                 /\ Len(call.probed) = call.port - call.startPort + 1
                 /\ \A i \in 1..Len(call.probed) :
                       call.probed[i] = call.startPort + i - 1

C22_Witness ==
    /\ call.op = "findAvailablePort"
    /\ call.startPort = 2
    /\ call.endPort = 4
    /\ call.probes[1] = "free"
    /\ call.probes[2] = "occupied"
    /\ call.probes[3] = "error"
    /\ call.probes[4] = "free"
    /\ call.port = 3

(***************************************************************************)
(* The order of the removals of a rollback                                 *)
(***************************************************************************)
RECURSIVE RemovedEach(_, _, _)
\* The paths that one removal loop of performRollback removes, in order.
RemovedEach(f, list, failSet) ==
    IF list = <<>> THEN <<>>
    ELSE LET p == Head(list) IN
         IF pathExists(f, p)
         THEN IF p \in failSet THEN <<>>
              ELSE <<p>> \o RemovedEach(remove(f, p), Tail(list), failSet)
         ELSE RemovedEach(f, Tail(list), failSet)

\* The "Removed file" and "Removed directory" lines of one RollbackInfo.
RemovalLog(f, info, failSet) ==
    LET r1 == RemoveEach(f, info.createdFiles, failSet)
    IN RemovedEach(f, info.createdFiles, failSet)
         \o (IF r1.failed # {} THEN <<>>
             ELSE RemovedEach(r1.fs, Reverse(info.createdDirs), failSet))

\* The base copy, the ORM copy and the rollback as the Assembler runs them,
\* on a tree with or without a directory below base/src.
InitOrder ==
    /\ fs = EmptyFs
    /\ rollbackStack = addRollbackPoint(<<>>, Root)
    /\ last = NoLast
    /\ tpl \in {FullTree, NestedTree}
    /\ cwdTpl = EmptyFs
    /\ mem = EmptyFs
    /\ disk = EmptyFs
    /\ lastRender = NoRender
    /\ GenIdle
    /\ call = NoCall
    /\ TimeIdle

\* The first step of the Assembler.
CopyBase ==
    /\ Copies = 0
    /\ \E data \in GenConfigs : CopyDirectory(TBase, Root, data)

\* Its second step, after a first step that did not throw.
CopyOrm ==
    /\ Copies = 1
    /\ call.err = ""
    /\ last.op = "none"
    /\ pathExists(tpl, <<call.data.orm>>)
    /\ CopyDirectory(<<call.data.orm>>, Root, call.data)

\* The rollback after a step that threw, this one or a later one.
Rollback ==
    /\ Copies >= 1
    /\ last.op = "none"
    /\ \E failSet \in FailSets({Join(Root, NSrc), JoinAll(<<Root, NSrc, NMain>>),
                                 Join(Root, NGithub)}) :
          HandleError(failSet)

NextOrder ==
    \/ CopyBase
    \/ CopyOrm
    \/ Rollback

SpecOrder == InitOrder /\ [][NextOrder]_vars

Position(log, p) == CHOOSE i \in 1..Len(log) : log[i] = p

\* C23: in the rollback of the most recent entry every file is removed
\* before any directory, the directories are removed in the reverse of the
\* order of tracking, and a tracked directory that lies below another
\* tracked directory is removed before that one is.
C23_NestedBeforeParent ==
    (last.op = "handleError" /\ last.preStack # <<>>) =>
        LET info == last.preStack[Len(last.preStack)]
            log == RemovalLog(last.preFs, info, last.failSet)
            files == Range(info.createdFiles)
            dirs == Range(info.createdDirs)
        IN /\ \A i, j \in 1..Len(log) :
                 (log[i] \in files /\ log[j] \in dirs) => i < j
           /\ \A i, j \in 1..Len(log) :
                 (i < j /\ log[i] \in dirs /\ log[j] \in dirs) =>
                     \E m, n \in 1..Len(info.createdDirs) :
                         /\ m > n
                         /\ info.createdDirs[m] = log[i]
                         /\ info.createdDirs[n] = log[j]
           /\ \A a, b \in dirs :
                 (Under(a, b) /\ pathExists(last.preFs, a) /\ b \in Range(log)) =>
                     /\ a \in Range(log)
                     /\ Position(log, a) < Position(log, b)

(***************************************************************************)
(* The order of the steps                                                  *)
(***************************************************************************)
\* C24: the checkpoint is opened before any step runs, and the steps run one
\* after the other in the order base copy, ORM copy, manifest merge,
\* container files (only when docker is configured), CI templates, README:
\* the steps started so far are a prefix of that list, a step is started
\* only when every step before it has completed without an error, and while
\* the steps run the latest checkpoint is the one of the project.
C24_StepsInOrder ==
    LET expected ==
            IF genData.docker
            THEN <<"base", "orm", "merge", "docker", "cicd", "readme">>
            ELSE <<"base", "orm", "merge", "cicd", "readme">>
    IN /\ Len(started) <= Len(expected)
       /\ \A i \in 1..Len(started) : started[i] = expected[i]
       /\ Len(started) = currentStep
       /\ started # <<>> => pc # "idle"
       /\ pc \in {"running", "returned", "caught"} =>
             /\ rollbackStack # <<>>
             /\ rollbackStack[Len(rollbackStack)].projectPath = genProjectPath
       /\ pc = "running" => caught = NoCaught
       /\ caught # NoCaught =>
             /\ caught.index = Len(started)
             /\ caught.step = started[Len(started)]
       /\ pc = "returned" => started = expected

C24_Witness ==
    /\ pc = "returned"
    /\ genData.docker
    /\ started = <<"base", "orm", "merge", "docker", "cicd", "readme">>
    /\ pathExists(fs, Join(Root, NReadme))

(***************************************************************************)
(* What a copy tracks                                                      *)
(***************************************************************************)
\* An entry of the source tree that the loop of copyDirectoryRecursive
\* passes over: the skip predicate holds for it, or it is the docker
\* directory of the base tree.
EntrySkipped(p, data) ==
    \/ shouldSkipFile(Basename(p), Parent(p), data)
    \/ IsDir(tpl, p) /\ Basename(p) = NDocker /\ IncludesBase(Parent(p))

\* The entries below sourceDir that the copy reaches: neither they nor a
\* directory above them is passed over.
CopiedEntries(sourceDir, data) ==
    {p \in DOMAIN tpl :
        /\ Under(p, sourceDir)
        /\ \A q \in Ancestors(p) : Under(q, sourceDir) => ~EntrySkipped(q, data)}

PassedEntries(sourceDir, data) ==
    {p \in DOMAIN tpl : Under(p, sourceDir)} \ CopiedEntries(sourceDir, data)

\* path.join(targetPath, item) along the recursion, the suffix of a template
\* file taken off.
TargetOf(p, sourceDir, targetDir) ==
    LET t == targetDir \o SubSeq(p, Len(sourceDir) + 1, Len(p)) IN
    IF IsFile(tpl, p) THEN StripEjs(t) ELSE t

\* What the last call of copyDirectory added to the latest Ledger Entry.
NewlyTrackedFiles ==
    LET before == call.preStack[Len(call.preStack)].createdFiles
        after == rollbackStack[Len(rollbackStack)].createdFiles
    IN SubSeq(after, Len(before) + 1, Len(after))

NewlyTrackedDirs ==
    LET before == call.preStack[Len(call.preStack)].createdDirs
        after == rollbackStack[Len(rollbackStack)].createdDirs
    IN SubSeq(after, Len(before) + 1, Len(after))

\* The paths below the target that the last call of copyDirectory wrote:
\* the files, which writeFile and copy write whether or not they existed,
\* and the directories that ensureDir found missing.
WrittenByCopy ==
    LET src == CopiedEntries(call.sourceDir, call.data) IN
    {TargetOf(p, call.sourceDir, call.targetDir) : p \in {q \in src : IsFile(tpl, q)}}
        \cup {p \in DOMAIN fs \ DOMAIN call.preFs : Under(p, call.targetDir)}

CopySucceeded ==
    /\ call.op = "copyDirectory"
    /\ call.err = ""
    /\ call.preStack # <<>>

EntriesAsCopied ==
    LET src == CopiedEntries(call.sourceDir, call.data)
        target(p) == TargetOf(p, call.sourceDir, call.targetDir)
        once(list, x) == Cardinality({i \in 1..Len(list) : list[i] = x}) = 1
    IN /\ \A p \in src : IsDir(tpl, p) =>
              /\ IsDir(fs, target(p))
              /\ once(NewlyTrackedDirs, target(p))
              /\ \A q \in src : (IsDir(tpl, q) /\ Under(q, p)) =>
                     \E i, j \in 1..Len(NewlyTrackedDirs) :
                         /\ i < j
                         /\ NewlyTrackedDirs[i] = target(p)
                         /\ NewlyTrackedDirs[j] = target(q)
       /\ \A p \in src : (IsFile(tpl, p) /\ EndsWithEjs(p)) =>
              /\ IsFile(fs, target(p))
              /\ fs[target(p)].content = ejsRender(tpl[p].content, call.data)
              /\ once(NewlyTrackedFiles, target(p))
       /\ \A p \in src : (IsFile(tpl, p) /\ ~EndsWithEjs(p)) =>
              /\ IsFile(fs, target(p))
              /\ Basename(target(p)) = Basename(p)
              /\ fs[target(p)].content = tpl[p].content
              /\ once(NewlyTrackedFiles, target(p))
       /\ \A p \in PassedEntries(call.sourceDir, call.data) :
              LET t == TargetOf(p, call.sourceDir, call.targetDir) IN
              /\ t \notin Range(NewlyTrackedFiles) \cup Range(NewlyTrackedDirs)
              /\ pathExists(fs, t) => (pathExists(call.preFs, t) /\ fs[t] = call.preFs[t])

\* C25: after a copyDirectory that succeeded with a checkpoint open, what the
\* call added to the Ledger is exactly what it wrote below the target: each
\* directory it reaches exists and is tracked once, before the directories
\* below it; each template file it reaches is a tracked file without the
\* .ejs suffix that holds the rendering; each other file is a tracked copy
\* of the same name and bytes; an entry it passes over is neither written
\* nor tracked.
C25_TrackedExactlyWritten ==
    CopySucceeded =>
        /\ EntriesAsCopied
        /\ Range(NewlyTrackedFiles) \cup Range(NewlyTrackedDirs) = WrittenByCopy

\* The same without the equality of tracked and written paths.
T25_Entries == CopySucceeded => EntriesAsCopied

\* Every tracked path that was not written is a directory that existed.
T25_OnlyExistingDirs ==
    CopySucceeded =>
        /\ WrittenByCopy \subseteq Range(NewlyTrackedFiles) \cup Range(NewlyTrackedDirs)
        /\ \A p \in (Range(NewlyTrackedFiles) \cup Range(NewlyTrackedDirs)) \ WrittenByCopy :
               IsDir(call.preFs, p)

(***************************************************************************)
(* Top-level keys of the merged manifest                                   *)
(***************************************************************************)
MergedManifests ==
    [base |-> JsonParse(ejsRender(tpl[BasePkgT].content, DataA)).doc,
     add |-> JsonParse(ejsRender(tpl[AdditionsT].content, DataA)).doc,
     out |-> JsonParse(fs[TargetPkg].content).doc]

\* C26: in the manifest that a merge wrote, every top-level key that only
\* the additions have is present with the additions' value, and every
\* top-level key that only the base has is present with the base's value.
C26_TopLevelKeysMerged ==
    (call.op = "mergePackageJson" /\ call.err = "") =>
        LET m == MergedManifests IN
        /\ \A k \in Keys(m.add) \ Keys(m.base) :
              k \in Keys(m.out) /\ GetKey(m.out, k) = GetKey(m.add, k)
        /\ \A k \in Keys(m.base) \ Keys(m.add) :
              k \in Keys(m.out) /\ GetKey(m.out, k) = GetKey(m.base, k)

\* The same for the keys that mergePackageJson names and the keys of the
\* base.
T26_NamedKeysMerged ==
    (call.op = "mergePackageJson" /\ call.err = "") =>
        LET m == MergedManifests IN
        /\ \A k \in (Keys(m.add) \ Keys(m.base))
                        \cap {"dependencies", "devDependencies", "scripts"} :
              k \in Keys(m.out) /\ GetKey(m.out, k) = GetKey(m.add, k)
        /\ \A k \in Keys(m.base) \ Keys(m.add) :
              k \in Keys(m.out) /\ GetKey(m.out, k) = GetKey(m.base, k)
        /\ \A k \in Keys(m.add) \ (Keys(m.base)
                        \cup {"dependencies", "devDependencies", "scripts"}) :
              k \notin Keys(m.out)

(***************************************************************************)
(* Two projects generated by one process                                   *)
(***************************************************************************)
OtherRoot == <<"proj2">>

ProjectRoots == {Root, OtherRoot}

InitTwoProjects ==
    /\ fs \in {EmptyFs, (Root :> DirEntry) @@ (OtherRoot :> DirEntry)}
    /\ rollbackStack = <<>>
    /\ last = NoLast
    /\ tpl = FullTree
    /\ cwdTpl \in {EmptyFs, tpl}
    /\ mem = EmptyFs
    /\ disk = EmptyFs
    /\ lastRender = NoRender
    /\ GenIdle
    /\ call = NoCall
    /\ TimeIdle

\* await templateManager.generateProjectStructure(projectPath, data) in the
\* process that ran the generations before it; the file operation numbered
\* failAt throws (none for 0).
GenerateStructureAt(projectPath, data, failAt) ==
    /\ Generations < MaxGenerations
    /\ \E st \in {generateProjectStructure(NewSt(fs, rollbackStack, mem, disk, failAt),
                                           projectPath, data, {})} :
          /\ fs' = st.fs
          /\ rollbackStack' = st.stack
          /\ mem' = st.mem
          /\ disk' = st.disk
          /\ call' = [op |-> "generateProjectStructure", data |-> data,
                      projectPath |-> projectPath,
                      err |-> st.err, ev |-> st.ev, failAt |-> failAt,
                      count |-> Generations + 1,
                      prevPath |-> IF Generations = 0 THEN <<>> ELSE call.projectPath,
                      prevErr |-> IF Generations = 0 THEN "none" ELSE call.err,
                      preFs |-> fs, preStack |-> rollbackStack]
    /\ UNCHANGED <<now, mtime, last, tpl, cwdTpl, lastRender, genVars>>

NextTwoProjects ==
    \E projectPath \in ProjectRoots, data \in GenConfigs, failAt \in 0..MaxFaultAt :
        GenerateStructureAt(projectPath, data, failAt)

SpecTwoProjects == InitTwoProjects /\ [][NextTwoProjects]_vars

\* A generation of one project failed after a generation of another project
\* succeeded in the same process.
FailedAfterOtherSucceeded ==
    /\ call.op = "generateProjectStructure"
    /\ call.count >= 2
    /\ call.prevErr = ""
    /\ call.prevPath # call.projectPath
    /\ call.err # ""

\* C27: when a generation for one project fails after a generation for
\* another project succeeded in the same process, every file and directory
\* of the earlier project is after the rollback as it was before the failed
\* call.
C27_RollbackSparesEarlierProject ==
    FailedAfterOtherSucceeded =>
        \A p \in DOMAIN call.preFs :
            AtOrUnder(p, call.prevPath) =>
                pathExists(fs, p) /\ fs[p] = call.preFs[p]

\* What the rollback of the failed generation removed is tracked by a
\* Ledger Entry that was on the stack when the call began or lies in the
\* project of the call.
T27_RemovedIsTracked ==
    FailedAfterOtherSucceeded =>
        \A p \in DOMAIN call.preFs \ DOMAIN fs :
            \/ AtOrUnder(p, call.projectPath)
            \/ \E q \in TrackedPaths(call.preStack) : AtOrUnder(p, q)
            \/ \E i \in 1..Len(call.preStack) : p = call.preStack[i].projectPath

(***************************************************************************)
(* Templates whose paths differ only in a character that getCacheKey       *)
(* replaces                                                                *)
(***************************************************************************)
SlashT == <<"mail", "/", "welcome", ".", "ejs">>
UnderscoreT == <<"mail", "_", "welcome", ".", "ejs">>
CollideTemplates == {SlashT, UnderscoreT}

DataB == Data("typeorm", "mysql", FALSE)

\* The templates have different texts, or the two of the like paths have
\* the same text.
CollideTrees ==
    { (<<"mail">> :> DirEntry) @@ (SlashT :> FileEntry(<<"hello", "<%=projectName%>">>))
        @@ (UnderscoreT :> FileEntry(text)) :
        text \in {<<"hello", "<%=projectName%>">>, <<"welcome", "<%=orm%>">>} }

\* What the callers store for a template: each template has contents of its
\* own.
StoredFor(t) ==
    CASE t = SlashT -> {<<"slash">>}
      [] t = UnderscoreT -> {<<"underscore">>}

InitCollide ==
    /\ LedgerIdle
    /\ tpl \in CollideTrees
    /\ cwdTpl \in {tpl, EmptyFs}
    /\ mem = EmptyFs
    /\ disk = EmptyFs
    /\ lastRender = NoRender
    /\ GenIdle
    /\ call = NoCall
    /\ TimeIdle

NextCollide ==
    \/ \E t \in CollideTemplates, d \in {DataA, DataB} :
          \E x \in StoredFor(t) : SetCachedTemplate(t, d, x)
    \/ \E t \in CollideTemplates, d \in {DataA, DataB} : GetCachedTemplate(t, d)
    \/ RestartProcess

SpecCollide == InitCollide /\ [][NextCollide]_vars

\* C28: a getCachedTemplate(t, c) that finds an entry, in memory or on disk,
\* returns a content that was stored for t, never one stored for another
\* template.
C28_EntriesNeverMix ==
    (call.op = "getCachedTemplate" /\ call.ev \cap {"memHit", "diskHit"} # {}) =>
        call.ret \in StoredFor(call.templatePath)

(***************************************************************************)
(* A target directory that exists                                          *)
(***************************************************************************)
\* C29: a generateProject whose target directory exists when it is called
\* fails, and the file system, the directory and what it holds included, and
\* the Ledger are as they were before the call: nothing is written, nothing
\* is tracked and the catch that cleans up does not run.
C29_ExistingDirUntouched ==
    (call.op = "generateProject"
        /\ pathExists(call.preFs, call.userInputs.projectName)) =>
            /\ call.err # ""
            /\ fs = call.preFs
            /\ rollbackStack = call.preStack
            /\ call.ev = {}

C29_Witness ==
    /\ call.op = "generateProject"
    /\ call.userInputs.projectName = ExistingDir
    /\ call.err = "AlreadyExists"
    /\ pathExists(call.preFs, Join(ExistingDir, NNotes))
    /\ pathExists(fs, Join(ExistingDir, NNotes))

(***************************************************************************)
(* Direct calls of PostGenerationManager.runPostGenerationSteps            *)
(***************************************************************************)
SchemaPath == JoinAll(<<Root, <<"prisma">>, NSchema>>)

\* Project directories with and without the files that the readiness check
\* asks for.
PostProjects ==
    { (Root :> DirEntry) @@ pkg @@ schema :
        pkg \in {EmptyFs, (Join(Root, NPkg) :> FileEntry(<<"{", "}">>))},
        schema \in {EmptyFs,
                    (Join(Root, <<"prisma">>) :> DirEntry)
                        @@ (SchemaPath :> FileEntry(<<"schema">>))} }

InitPost ==
    /\ fs \in PostProjects
    /\ rollbackStack = <<>>
    /\ last = NoLast
    /\ CacheIdle
    /\ GenIdle
    /\ call = NoCall
    /\ TimeIdle

\* await new PostGenerationManager(Root, templateData).runPostGenerationSteps(),
\* in which the install, the client generation and the build succeed or
\* fail as given.
RunPostGenerationSteps(templateData, installOk, prismaOk, buildOk) ==
    /\ call' = [op |-> "runPostGenerationSteps", data |-> templateData,
                installOk |-> installOk, prismaOk |-> prismaOk, buildOk |-> buildOk,
                result |-> runPostGenerationSteps(fs, Root, templateData,
                                                  installOk, prismaOk, buildOk)]
    /\ UNCHANGED <<now, mtime, ledgerVars, cacheVars, genVars>>

NextPost ==
    \E templateData \in GenConfigs, installOk, prismaOk, buildOk \in BOOLEAN :
        RunPostGenerationSteps(templateData, installOk, prismaOk, buildOk)

SpecPost == InitPost /\ [][NextPost]_vars

\* C30: runPostGenerationSteps returns a result, whose success is true
\* exactly when the install succeeded, the client generation succeeded if
\* the ORM is prisma, and package.json and, for prisma, the schema exist;
\* the build does not matter for success; after a failed install or client
\* generation the result has no error or warning of the build or of the
\* readiness check, and the client generation leaves no error unless the
\* ORM is prisma.
C30_PostGenerationSuccess ==
    call.op = "runPostGenerationSteps" =>
        LET r == call.result
            prisma == call.data.orm = "prisma"
            coreOk == call.installOk /\ (prisma => call.prismaOk)
            ready == /\ pathExists(fs, Join(Root, NPkg))
                     /\ prisma => pathExists(fs, SchemaPath)
        IN /\ r.success \in BOOLEAN
           /\ r.success <=> (coreOk /\ ready)
           /\ ~coreOk =>
                 /\ r.warnings = <<>>
                 /\ r.errors =
                       <<IF call.installOk THEN "Failed to generate Prisma client"
                         ELSE "Failed to install dependencies",
                         "Post-generation failed">>
           /\ coreOk =>
                 /\ "Failed to build project" \in Range(r.errors) <=> ~call.buildOk
                 /\ "Missing required file: package.json" \in Range(r.errors)
                        <=> ~pathExists(fs, Join(Root, NPkg))
                 /\ "Missing required file: Prisma schema" \in Range(r.errors)
                        <=> (prisma /\ ~pathExists(fs, SchemaPath))
                 /\ "Failed to generate Prisma client" \notin Range(r.errors)

C30_Witness ==
    /\ call.op = "runPostGenerationSteps"
    /\ call.data.orm = "prisma"
    /\ call.installOk /\ call.prismaOk /\ ~call.buildOk
    /\ pathExists(fs, Join(Root, NPkg))
    /\ pathExists(fs, SchemaPath)
    /\ call.result.success
    /\ call.result.errors = <<"Failed to build project">>

====
